---- MODULE Spec2Model ----
(***************************************************************************)
(* CoHDL: translation of synthesizable contexts into concurrent statements *)
(* and clocked state machines, as described by the cohdl_documentation     *)
(* notebooks.  A design is a list of synthesizable contexts over a set of  *)
(* declared Signals/Ports.  The compiler translates every collected        *)
(* context, checks the drivers of every Signal, and the resulting          *)
(* automata then run in parallel, one state per clock edge.                *)
(***************************************************************************)
EXTENDS Integers, Sequences, FiniteSets, TLC

(***************************************************************************)
(* Bounds of the model.                                                    *)
(***************************************************************************)
\* width in bits given to the data payloads (BitVector[8], BitVector[32])
DataWidth == 2
\* value the Blink example reloads its counter with (100_000_000 in the source)
MAX_COUNTER == 2
\* most instructions one clock edge may visit before the run is cut off
MaxSteps == 12
\* recursion depth up to which the calls of a function are inlined
MaxDepth == 4

NoValue == -1

RECURSIVE Pow2(_)
Pow2(n) == IF n = 0 THEN 1 ELSE 2 * Pow2(n - 1)

(***************************************************************************)
(* Expressions over type qualified objects.  The result of an expression   *)
(* is a Temporary; it is truthy when non-zero.                             *)
(***************************************************************************)
Const(v) == [k |-> "const", n |-> "", v |-> v]
Rd(n)    == [k |-> "rd",    n |-> n,  v |-> 0]
Inv(n)   == [k |-> "inv",   n |-> n,  v |-> 0]
Dec(n)   == [k |-> "dec",   n |-> n,  v |-> 0]
Inc(n)   == [k |-> "inc",   n |-> n,  v |-> 0]
Eqz(n)   == [k |-> "eqz",   n |-> n,  v |-> 0]
\* n[W-2:0] and n[W-1:1]
LoBits(n) == [k |-> "lobits", n |-> n, v |-> 0]
HiBits(n) == [k |-> "hibits", n |-> n, v |-> 0]
\* n[i], one bit of a vector
Bit(n, i) == [k |-> "bit", n |-> n, v |-> i]
\* n != v, v a constant
Ne(n, v) == [k |-> "ne", n |-> n, v |-> v]
\* a + b; v names the second operand
Add(a, b) == [k |-> "add", n |-> a, v |-> b]

\* the part of a vector that is its bit i, and the bit a part is
BitPart(i) == CASE i = 0 -> "b0" [] i = 1 -> "b1" [] i = 2 -> "b2"
BitIndex(part) == CASE part = "b0" -> 0 [] part = "b1" -> 1 [] part = "b2" -> 2

(***************************************************************************)
(* Statements of a synthesizable context, in program order.  j is the      *)
(* position control continues at: the first statement after the loop for   *)
(* while, the loop's while for break/continue/endwhile, the end of the     *)
(* branch for if/else.                                                     *)
(***************************************************************************)
Stmt(op, t, e, mode, part, j) ==
    [op |-> op, tgt |-> t, e |-> e, mode |-> mode, part |-> part, j |-> j]
\* s <<= e / s.next = e
Assign(t, e)   == Stmt("assign", t, e, "NEXT", "all", 0)
\* s[W-1:1] <<= e, s[W-2:0] <<= e, s[0] <<= e
AssignHi(t, e) == Stmt("assign", t, e, "NEXT", "hi", 0)
AssignLo(t, e) == Stmt("assign", t, e, "NEXT", "lo", 0)
AssignB0(t, e) == Stmt("assign", t, e, "NEXT", "b0", 0)
\* s[i] <<= e
AssignBit(t, i, e) == Stmt("assign", t, e, "NEXT", BitPart(i), 0)
\* s ^= e / s.push = e
Push(t, e)     == Stmt("assign", t, e, "PUSH", "all", 0)
Await(e)       == Stmt("await", "", e, "", "", 0)
While(e, exit) == Stmt("while", "", e, "", "", exit)
EndWhile(h)    == Stmt("endwhile", "", Const(0), "", "", h)
If(e, end)     == Stmt("if", "", e, "", "", end)
Else(end)      == Stmt("else", "", Const(0), "", "", end)
Break(h)       == Stmt("break", "", Const(0), "", "", h)
Continue(h)    == Stmt("continue", "", Const(0), "", "", h)
\* v @= e / v.value = e
AssignVar(t, e) == Stmt("assign", t, e, "VALUE", "all", 0)
\* await fn(args): args binds the parameters of coroutine fn to objects
Call(fn, args) == Stmt("call", fn, args, "", "", 0)
\* for vars in items: ... ; items lists, per iteration, the objects bound to
\* the loop variables; exit is the position after the loop's endfor
For(items, exit) == Stmt("for", "", items, "", "", exit)
EndFor(h)      == Stmt("endfor", "", Const(0), "", "", h)
\* the else clause of the for loop that ends just before it
ForElse(end)   == Stmt("forelse", "", Const(0), "", "", end)
\* the body of a generator expression (... for vars in items)
Generator(items, exit) == Stmt("for", "", items, "GEN", "", exit)
\* name = obj: name becomes a reference to the object
Bind(name, obj) == Stmt("bind", name, obj, "", "", 0)
\* t <<= fn(*args): the value function fn returns for the objects args
AssignCall(t, fn, args) ==
    Stmt("callfn", t, [fn |-> fn, args |-> args], "NEXT", "all", 0)
\* assert e
Assertion(e) == Stmt("assert", "", e, "", "", 0)
\* static_assert(e)
StaticAssert(e) == Stmt("static_assert", "", e, "", "", 0)
\* the result of an expression, held by a Temporary
AssignTemp(t, e) == Stmt("assign", t, e, "VALUE", "all", 0)

\* an object a name is bound to: a Signal, or one bit of a Signal
Obj(n)         == [n |-> n, part |-> "all"]
ObjBit(n, i)   == [n |-> n, part |-> BitPart(i)]

\* declarations: width, default value (NoValue: none), direction
PortIn(w)      == [w |-> w, d |-> NoValue, dir |-> "in"]
PortOut(w, d)  == [w |-> w, d |-> d,       dir |-> "out"]
Signal(w, d)   == [w |-> w, d |-> d,       dir |-> "sig"]
Variable(w, d) == [w |-> w, d |-> d,       dir |-> "var"]
Temporary(w)   == [w |-> w, d |-> NoValue, dir |-> "tmp"]

\* contexts; reset names the bit Signal wrapped by the std.Reset given to
\* std.sequential ("": none)
Sequential(name, code) ==
    [name |-> name, kind |-> "sequential", reset |-> "", code |-> code]
Concurrent(name, code) ==
    [name |-> name, kind |-> "concurrent", reset |-> "", code |-> code]
SequentialReset(name, reset, code) ==
    [name |-> name, kind |-> "sequential", reset |-> reset, code |-> code]

(***************************************************************************)
(* The designs of the notebooks.                                           *)
(***************************************************************************)
\* 09_coroutines: SerialReceiver
SerialReceiver ==
    [sigs |-> [start |-> PortIn(1), input |-> PortIn(1),
               new_output |-> PortOut(1, 0), output |-> PortOut(DataWidth, NoValue),
               cnt |-> Signal(3, 7), buffer |-> Signal(DataWidth, NoValue)],
     ctxs |-> << Sequential("coroutine_process", <<
        (* 1 *) Await(Rd("start")),
        (* 2 *) Assign("cnt", Const(7)),
        (* 3 *) While(Rd("cnt"), 8),
        (* 4 *)   AssignHi("buffer", LoBits("buffer")),
        (* 5 *)   AssignB0("buffer", Rd("input")),
        (* 6 *)   Assign("cnt", Dec("cnt")),
        (* 7 *) EndWhile(3),
        (* 8 *) Assign("output", Rd("buffer")),
        (* 9 *) Push("new_output", Const(1)) >>) >>]

\* 09_coroutines: Counter, waiting with while loops
CounterWhile ==
    [sigs |-> [step |-> PortIn(1), output |-> PortOut(2, NoValue)],
     ctxs |-> << Sequential("coroutine_process", <<
        (* 1 *) Await(Rd("step")),
        (* 2 *) Assign("output", Const(0)),
        (* 3 *) While(Inv("step"), 5),
        (* 4 *) EndWhile(3),
        (* 5 *) Assign("output", Const(1)),
        (* 6 *) While(Inv("step"), 9),
        (* 7 *)   Assign("output", Const(2)),
        (* 8 *) EndWhile(6),
        (* 9 *) Assign("output", Const(3)) >>) >>]

\* 09_coroutines: ExampleBreak
ExampleBreak ==
    [sigs |-> [step |-> PortIn(1), break_loop |-> PortIn(1),
               output |-> PortOut(4, NoValue), cnt |-> Signal(4, 0)],
     ctxs |-> << Sequential("coroutine_process", <<
        (* 1 *) Await(Rd("step")),
        (* 2 *) Assign("cnt", Const(15)),
        (* 3 *) While(Rd("cnt"), 9),
        (* 4 *)   Assign("output", Rd("cnt")),
        (* 5 *)   Assign("cnt", Dec("cnt")),
        (* 6 *)   If(Rd("break_loop"), 8),
        (* 7 *)     Break(3),
        (* 8 *) EndWhile(3),
        (* 9 *) Assign("output", Const(0)) >>) >>]

\* 09_coroutines: ExampleContinue (first version)
ExampleContinue ==
    [sigs |-> [step |-> PortIn(1), continue_loop |-> PortIn(1),
               output |-> PortOut(4, NoValue), cnt |-> Signal(4, 0)],
     ctxs |-> << Sequential("coroutine_process", <<
        (* 1 *) Await(Rd("step")),
        (* 2 *) Assign("cnt", Const(15)),
        (* 3 *) While(Rd("cnt"), 10),
        (* 4 *)   Assign("output", Rd("cnt")),
        (* 5 *)   Assign("cnt", Dec("cnt")),
        (* 6 *)   Await(Rd("step")),
        (* 7 *)   If(Rd("continue_loop"), 9),
        (* 8 *)     Continue(3),
        (* 9 *) EndWhile(3),
        (* 10 *) Assign("output", Const(0)) >>) >>]

\* 09_coroutines: ExampleContinue (second version), context no_delay
NoDelay ==
    [sigs |-> [a_valid |-> PortIn(1), a_data |-> PortIn(DataWidth),
               a_ready |-> PortOut(1, NoValue),
               a_processed_data |-> PortOut(DataWidth, NoValue)],
     ctxs |-> << Sequential("no_delay", <<
        (* 1 *) Assign("a_ready", Const(1)),
        (* 2 *) If(Rd("a_valid"), 4),
        (* 3 *)   Assign("a_processed_data", Rd("a_data")) >>) >>]

\* 09_coroutines: ExampleContinue (second version), context simple_coroutine
SimpleCoroutine ==
    [sigs |-> [b_valid |-> PortIn(1), b_data |-> PortIn(DataWidth),
               b_ready |-> PortOut(1, NoValue),
               b_processed_data |-> PortOut(DataWidth, NoValue)],
     ctxs |-> << Sequential("simple_coroutine", <<
        (* 1 *) Assign("b_ready", Const(1)),
        (* 2 *) Await(Rd("b_valid")),
        (* 3 *) Assign("b_ready", Const(0)),
        (* 4 *) Assign("b_processed_data", Rd("b_data")) >>) >>]

\* 09_coroutines: ExampleContinue (second version), context using_continue
UsingContinue ==
    [sigs |-> [c_valid |-> PortIn(1), c_data |-> PortIn(DataWidth),
               c_ready |-> PortOut(1, NoValue),
               c_processed_data |-> PortOut(DataWidth, NoValue)],
     ctxs |-> << Sequential("using_continue", <<
        (* 1 *) While(Const(1), 7),
        (* 2 *)   Assign("c_ready", Const(1)),
        (* 3 *)   Await(Rd("c_valid")),
        (* 4 *)   Assign("c_ready", Const(0)),
        (* 5 *)   Assign("c_processed_data", Rd("c_data")),
        (* 6 *)   Continue(1) >>) >>]

\* introduction, example 3: CoroutineExample with Interface.receive inlined
CoroutineExample ==
    [sigs |-> [valid |-> PortIn(1), data_in |-> PortIn(DataWidth),
               ack |-> PortOut(1, 0), data_out |-> PortOut(DataWidth, NoValue)],
     ctxs |-> << Sequential("process_receive", <<
        (* 1 *) Await(Rd("valid")),
        (* 2 *) Push("ack", Const(1)),
        (* 3 *) Assign("data_out", Rd("data_in")) >>) >>]

\* introduction, example 2: Blink
Blink ==
    [sigs |-> [led |-> PortOut(1, NoValue), counter |-> Signal(2, 0)],
     ctxs |-> << Sequential("blink_led", <<
        (* 1 *) If(Eqz("counter"), 5),
        (* 2 *)   Assign("counter", Const(MAX_COUNTER)),
        (* 3 *)   Assign("led", Inv("led")),
        (* 4 *) Else(6),
        (* 5 *)   Assign("counter", Dec("counter")) >>) >>]

\* introduction, example 1: Inverter
Inverter ==
    [sigs |-> [input |-> PortIn(1), output |-> PortOut(1, NoValue)],
     ctxs |-> << Concurrent("logic", <<
        (* 1 *) Assign("output", Inv("input")) >>) >>]

\* 09_coroutines, break/continue: no transition between the start of the
\* loop and the continue statement
ContinueNoTransition ==
    [sigs |-> [cond |-> PortIn(1), flag |-> PortIn(1)],
     ctxs |-> << Sequential("coroutine_process", <<
        (* 1 *) While(Rd("cond"), 5),
        (* 2 *)   If(Rd("flag"), 4),
        (* 3 *)     Continue(1),
        (* 4 *) EndWhile(1) >>) >>]

\* as above, a transition on one of the two paths to the continue statement
ContinueOnePath ==
    [sigs |-> [cond |-> PortIn(1), flag |-> PortIn(1), x |-> PortIn(1)],
     ctxs |-> << Sequential("coroutine_process", <<
        (* 1 *) While(Rd("cond"), 6),
        (* 2 *)   If(Rd("flag"), 4),
        (* 3 *)     Await(Rd("x")),
        (* 4 *)   Continue(1),
        (* 5 *) EndWhile(1) >>) >>]

(***************************************************************************)
(* Designs in which one Signal is assigned from two contexts.              *)
(***************************************************************************)
\* both contexts assign `output` unconditionally
DriveTwice ==
    [sigs |-> [input |-> PortIn(1), output |-> PortOut(1, NoValue)],
     ctxs |-> << Concurrent("logic", << Assign("output", Inv("input")) >>),
                 Sequential("process", << Assign("output", Rd("input")) >>) >>]

\* the same two contexts, declared in the opposite order
DriveTwiceSwapped ==
    [sigs |-> [input |-> PortIn(1), output |-> PortOut(1, NoValue)],
     ctxs |-> << Sequential("process", << Assign("output", Rd("input")) >>),
                 Concurrent("logic", << Assign("output", Inv("input")) >>) >>]

\* one context assigns under a runtime condition, the other unconditionally
DriveConditional ==
    [sigs |-> [a_valid |-> PortIn(1), a_data |-> PortIn(1),
               a_processed_data |-> PortOut(1, NoValue)],
     ctxs |-> << Sequential("no_delay", <<
                    If(Rd("a_valid"), 3),
                      Assign("a_processed_data", Rd("a_data")) >>),
                 Sequential("other", <<
                    If(Inv("a_valid"), 3),
                      Assign("a_processed_data", Const(0)) >>) >>]

\* each context assigns a different part of `buffer`
DrivePartial ==
    [sigs |-> [input |-> PortIn(1), buffer |-> Signal(2, NoValue)],
     ctxs |-> << Sequential("upper", << AssignHi("buffer", LoBits("buffer")) >>),
                 Sequential("lower", << AssignB0("buffer", Rd("input")) >>) >>]

\* two contexts sharing a Signal that only one of them drives
SharedSignal ==
    [sigs |-> [input |-> PortIn(1), s |-> Signal(1, NoValue),
               output |-> PortOut(1, NoValue)],
     ctxs |-> << Concurrent("logic", << Assign("s", Inv("input")) >>),
                 Sequential("process", << Assign("output", Rd("s")) >>) >>]

(***************************************************************************)
(* Designs with statements the compiler resolves.                          *)
(***************************************************************************)
\* 09_coroutines: Counter, awaiting the coroutine coro_fn; the second
\* context is the same process with the body of coro_fn written out
CounterCoroutine ==
    [sigs |-> [step |-> PortIn(1), output |-> PortOut(2, NoValue),
               written |-> PortOut(2, NoValue)],
     ctxs |-> << Sequential("coroutine_process", <<
        (* 1 *) Await(Rd("step")),
        (* 2 *) Assign("output", Const(0)),
        (* 3 *) Call("coro_fn", [step |-> Obj("step"), output |-> Obj("output")]),
        (* 4 *) Assign("output", Const(3)) >>),
                 Sequential("written_out", <<
        (* 1 *) Await(Rd("step")),
        (* 2 *) Assign("written", Const(0)),
        (* 3 *) Await(Rd("step")),
        (* 4 *) Assign("written", Const(1)),
        (* 5 *) Await(Inv("step")),
        (* 6 *) Assign("written", Const(2)),
        (* 7 *) Await(Rd("step")),
        (* 8 *) Assign("written", Const(3)) >>) >>]

\* basic statements: ExampleIf.proc_select (one bit of a, b and result)
ExampleIfWith(invert) ==
    [sigs |-> [select_a |-> PortIn(1), a |-> PortIn(1), b |-> PortIn(1),
               result |-> PortOut(1, NoValue)],
     ctxs |-> << Sequential("proc_select", <<
        (* 1 *)  If(Const(invert), 7),
        (* 2 *)    If(Rd("select_a"), 5),
        (* 3 *)      Assign("result", Rd("a")),
        (* 4 *)    Else(6),
        (* 5 *)      Assign("result", Rd("b")),
        (* 6 *)  Else(11),
        (* 7 *)    If(Rd("select_a"), 10),
        (* 8 *)      Assign("result", Rd("b")),
        (* 9 *)    Else(11),
        (* 10 *)     Assign("result", Rd("a")) >>) >>]

\* invert = True, as in the notebook, and invert = False
ExampleIf == ExampleIfWith(1)
ExampleIfNot == ExampleIfWith(0)

\* if statements with a constant condition whose other branch holds a
\* statement that is not possible where it stands
IgnoredBranch ==
    [sigs |-> [select_a |-> PortIn(1), a |-> PortIn(1),
               plain |-> Signal(1, NoValue),
               r_seq |-> PortOut(1, NoValue), r_con |-> PortOut(1, NoValue)],
     ctxs |-> << Sequential("process", <<
        (* 1 *) If(Const(0), 4),
        (* 2 *)   Push("plain", Const(1)),
        (* 3 *) Else(5),
        (* 4 *)   Assign("r_seq", Rd("a")) >>),
                 Concurrent("logic", <<
        (* 1 *) If(Const(1), 4),
        (* 2 *)   Assign("r_con", Inv("a")),
        (* 3 *) Else(6),
        (* 4 *)   If(Rd("select_a"), 6),
        (* 5 *)     Assign("r_con", Rd("a")) >>) >>]

\* basic statements: ExampleFor.example_zip
ExampleZip ==
    [sigs |-> [a |-> PortIn(1), b |-> PortIn(1), c |-> PortIn(1),
               result |-> PortOut(3, NoValue)],
     ctxs |-> << Concurrent("example_zip", <<
        (* 1 *) For(<< [output |-> ObjBit("result", 0), input |-> Obj("a")],
                       [output |-> ObjBit("result", 1), input |-> Obj("b")],
                       [output |-> ObjBit("result", 2), input |-> Obj("c")] >>, 4),
        (* 2 *)   Assign("output", Rd("input")),
        (* 3 *) EndFor(1) >>) >>]

\* a for loop over an empty sequence, between two statements
ForEmpty ==
    [sigs |-> [a |-> PortIn(1), first |-> PortOut(1, NoValue),
               never |-> PortOut(1, NoValue), last |-> PortOut(1, NoValue)],
     ctxs |-> << Concurrent("logic", <<
        (* 1 *) Assign("first", Rd("a")),
        (* 2 *) For(<< >>, 5),
        (* 3 *)   Assign("never", Rd("input")),
        (* 4 *) EndFor(2),
        (* 5 *) Assign("last", Inv("a")) >>) >>]

\* the bits of `input` and `output` paired, as enumerate pairs them
InputBits ==
    << [out |-> ObjBit("output", 0), inp |-> ObjBit("input", 0)],
       [out |-> ObjBit("output", 1), inp |-> ObjBit("input", 1)],
       [out |-> ObjBit("output", 2), inp |-> ObjBit("input", 2)] >>

\* basic statements, for loops - special case: ExampleFor.example_for
\* (three bits of input and output)
ExampleForBreak ==
    [sigs |-> [input |-> PortIn(3), output |-> PortOut(3, NoValue)],
     ctxs |-> << Sequential("example_for", <<
        (* 1 *) Assign("output", Const(0)),
        (* 2 *) For(InputBits, 7),
        (* 3 *)   If(Rd("inp"), 6),
        (* 4 *)     Assign("out", Const(1)),
        (* 5 *)     Break(2),
        (* 6 *) EndFor(2),
        (* 7 *) ForElse(9),
        (* 8 *)   Assign("output", Const(7)) >>) >>]

\* the same loop without the optional else clause
ExampleForBreakNoElse ==
    [sigs |-> [input |-> PortIn(3), output |-> PortOut(3, NoValue)],
     ctxs |-> << Sequential("example_for", <<
        (* 1 *) Assign("output", Const(0)),
        (* 2 *) For(InputBits, 7),
        (* 3 *)   If(Rd("inp"), 6),
        (* 4 *)     Assign("out", Const(1)),
        (* 5 *)     Break(2),
        (* 6 *) EndFor(2) >>) >>]

(***************************************************************************)
(* Designs on the kinds of object and their assignments.                   *)
(***************************************************************************)
\* a Signal and a Variable assigned and then read in the same context
SignalAndVariable ==
    [sigs |-> [a |-> PortIn(1), s |-> Signal(1, 0), v |-> Variable(1, 0),
               from_s |-> PortOut(1, 0), from_v |-> PortOut(1, 0)],
     ctxs |-> << Sequential("process", <<
        (* 1 *) Assign("s", Rd("a")),
        (* 2 *) AssignVar("v", Rd("a")),
        (* 3 *) Assign("from_s", Rd("s")),
        (* 4 *) Assign("from_v", Rd("v")) >>) >>]

\* Variables used in concurrent contexts: assigned, and read
VariableInConcurrent ==
    [sigs |-> [a |-> PortIn(1), v |-> Variable(1, 0), w |-> Variable(1, 0),
               r |-> PortOut(1, 0)],
     ctxs |-> << Concurrent("assigns", << Assign("v", Rd("a")) >>),
                 Concurrent("reads", << Assign("r", Rd("w")) >>) >>]

\* push and next assignment applied to the same Signal: in the same
\* sequence in either order, in two branches, in two states
PushAndNextAssigned ==
    [sigs |-> [x |-> PortIn(1), p1 |-> Signal(1, 0), p2 |-> Signal(1, 0),
               p3 |-> Signal(1, 0), p4 |-> Signal(1, 0)],
     ctxs |-> << Sequential("push_first", <<
                    Push("p1", Const(1)),
                    Assign("p1", Rd("x")) >>),
                 Sequential("next_first", <<
                    Assign("p2", Rd("x")),
                    Push("p2", Const(1)) >>),
                 Sequential("branches", <<
        (* 1 *)     If(Rd("x"), 4),
        (* 2 *)       Assign("p3", Const(1)),
        (* 3 *)     Else(5),
        (* 4 *)       Push("p3", Const(1)) >>),
                 Sequential("states", <<
        (* 1 *)     Push("p4", Const(1)),
        (* 2 *)     Await(Rd("x")),
        (* 3 *)     Assign("p4", Const(0)) >>) >>]

\* push assignment to a Signal without default value; the second context
\* shows the clock running
PushNoDefault ==
    [sigs |-> [x |-> PortIn(1), s |-> Signal(1, NoValue), seen |-> Signal(1, 0)],
     ctxs |-> << Sequential("pushes", <<
        (* 1 *)     Await(Rd("x")),
        (* 2 *)     Push("s", Const(1)) >>),
                 Sequential("observes", <<
        (* 1 *)     Assign("seen", Rd("x")) >>) >>]

\* assignments to an input port
WriteInput ==
    [sigs |-> [x |-> PortIn(1), y |-> PortIn(1), r |-> PortOut(1, 0)],
     ctxs |-> << Sequential("next_assigned", <<
                    Assign("r", Rd("x")),
                    Assign("x", Const(0)) >>),
                 Concurrent("concurrently", << Assign("y", Inv("x")) >>),
                 Sequential("pushed", << Push("y", Const(1)) >>) >>]

\* the same if statement, its condition a Signal, in a concurrent and in a
\* sequential context
RuntimeIf ==
    [sigs |-> [select_a |-> PortIn(1), a |-> PortIn(1), b |-> PortIn(1),
               r_con |-> PortOut(1, 0), r_seq |-> PortOut(1, 0)],
     ctxs |-> << Concurrent("logic", <<
        (* 1 *)     If(Rd("select_a"), 4),
        (* 2 *)       Assign("r_con", Rd("a")),
        (* 3 *)     Else(5),
        (* 4 *)       Assign("r_con", Rd("b")) >>),
                 Sequential("process", <<
        (* 1 *)     If(Rd("select_a"), 4),
        (* 2 *)       Assign("r_seq", Rd("a")),
        (* 3 *)     Else(5),
        (* 4 *)       Assign("r_seq", Rd("b")) >>) >>]

\* 09_coroutines, async/await: await expressions, while loops and awaited
\* coroutines placed in concurrent contexts, next to a plain concurrent context
SuspendingConcurrent ==
    [sigs |-> [step |-> PortIn(1), a |-> PortOut(1, 0), b |-> PortOut(1, 0),
               output |-> PortOut(2, 0), d |-> PortOut(1, 0)],
     ctxs |-> << Concurrent("logic_await", <<
        (* 1 *)     Await(Rd("step")),
        (* 2 *)     Assign("a", Const(1)) >>),
                 Concurrent("logic_while", <<
        (* 1 *)     While(Rd("step"), 4),
        (* 2 *)       Assign("b", Const(1)),
        (* 3 *)     EndWhile(1) >>),
                 Concurrent("logic_call", <<
        (* 1 *)     Call("coro_fn", [step |-> Obj("step"), output |-> Obj("output")]) >>),
                 Concurrent("logic", <<
        (* 1 *)     Assign("d", Rd("step")) >>) >>]

\* object model, references: a reference defined once, a reference defined
\* twice, and one loop variable name used by two for loops and a generator
\* expression of the same function
References ==
    [sigs |-> [a |-> PortIn(1), inp |-> PortIn(2),
               r1 |-> PortOut(1, 0), r2 |-> PortOut(1, 0),
               r3 |-> PortOut(2, 0), r4 |-> PortOut(2, 0)],
     ctxs |-> << Concurrent("defined_once", <<
        (* 1 *)     Bind("x", Obj("a")),
        (* 2 *)     Bind("y", Obj("x")),
        (* 3 *)     Assign("r1", Rd("y")) >>),
                 Concurrent("defined_twice", <<
        (* 1 *)     Bind("x", Obj("a")),
        (* 2 *)     Bind("x", ObjBit("inp", 0)),
        (* 3 *)     Assign("r2", Rd("x")) >>),
                 Concurrent("loops", <<
        (* 1 *)     For(<< [nr |-> ObjBit("r3", 0), bit |-> ObjBit("inp", 0)] >>, 4),
        (* 2 *)       Assign("nr", Rd("bit")),
        (* 3 *)     EndFor(1),
        (* 4 *)     For(<< [nr |-> ObjBit("r3", 1), bit |-> ObjBit("inp", 1)] >>, 7),
        (* 5 *)       Assign("nr", Rd("bit")),
        (* 6 *)     EndFor(4),
        (* 7 *)     Generator(<< [nr |-> ObjBit("r4", 0), bit |-> ObjBit("inp", 1)],
                                 [nr |-> ObjBit("r4", 1), bit |-> ObjBit("inp", 0)] >>, 10),
        (* 8 *)       Assign("nr", Rd("bit")),
        (* 9 *)     EndFor(7) >>) >>]

\* a context the compiler rejects (continue with no transition before it)
\* next to two independent contexts, one of them driving the same Signal
FailingContext ==
    [sigs |-> [step |-> PortIn(1), shared |-> PortOut(1, 0), other |-> PortOut(1, 0)],
     ctxs |-> << Sequential("rejected", <<
        (* 1 *)     While(Const(1), 4),
        (* 2 *)       Assign("shared", Const(1)),
        (* 3 *)       Continue(1) >>),
                 Sequential("process", <<
        (* 1 *)     Await(Rd("step")),
        (* 2 *)     Assign("shared", Inv("shared")) >>),
                 Concurrent("logic", <<
        (* 1 *)     Assign("other", Rd("step")) >>) >>]

\* 09_coroutines: the coroutines of ExampleContinue and of a continue with
\* no transition before it, each handed to the compiler twice
TwoRuns ==
    [sigs |-> [step |-> PortIn(1), continue_loop |-> PortIn(1),
               cond |-> PortIn(1), flag |-> PortIn(1),
               output |-> PortOut(2, 0), cnt |-> Signal(2, 0)],
     ctxs |-> << Sequential("first_run", ExampleContinue.ctxs[1].code),
                 Sequential("second_run", ExampleContinue.ctxs[1].code),
                 Sequential("first_rejected", ContinueNoTransition.ctxs[1].code),
                 Sequential("second_rejected", ContinueNoTransition.ctxs[1].code) >>]

\* sequential logic: Counter, incrementing the output port it reads, and a
\* concurrent context reading the same port
Counter ==
    [sigs |-> [output |-> PortOut(DataWidth, NoValue), is_zero |-> PortOut(1, NoValue)],
     ctxs |-> << Sequential("process", <<
        (* 1 *)     Assign("output", Inc("output")) >>),
                 Concurrent("logic", <<
        (* 1 *)     Assign("is_zero", Eqz("output")) >>) >>]

\* sequential logic, std.Reset: Counter with a reset, driving in addition a
\* Signal that has no default value and a Variable that has one
CounterReset ==
    [sigs |-> [reset |-> PortIn(1), output |-> PortOut(DataWidth, 0),
               toggle |-> Signal(1, NoValue), counted |-> Variable(1, 0)],
     ctxs |-> << SequentialReset("process", "reset", <<
        (* 1 *)     Assign("output", Inc("output")),
        (* 2 *)     Assign("toggle", Inv("toggle")),
        (* 3 *)     AssignVar("counted", Const(1)) >>) >>]

\* a coroutine whose first state has three transitions: to the await guarded
\* by a, to the await guarded by b, and back to the start
TwoGuards ==
    [sigs |-> [start |-> PortIn(1), a |-> PortIn(1), b |-> PortIn(1),
               go |-> PortIn(1), output |-> PortOut(2, 0)],
     ctxs |-> << Sequential("coroutine_process", <<
        (* 1 *) Await(Rd("start")),
        (* 2 *) If(Rd("a"), 5),
        (* 3 *)   Await(Rd("go")),
        (* 4 *)   Assign("output", Const(1)),
        (* 5 *) If(Rd("b"), 8),
        (* 6 *)   Await(Rd("go")),
        (* 7 *)   Assign("output", Const(2)),
        (* 8 *) Assign("output", Const(3)) >>) >>]

\* 09_coroutines, while loops: waiting with await expressions, and waiting
\* with while loops that have an empty body, side by side
AwaitAsWhile ==
    [sigs |-> [step |-> PortIn(1), awaited |-> PortOut(2, 0), looped |-> PortOut(2, 0)],
     ctxs |-> << Sequential("awaiting", <<
        (* 1 *) Assign("awaited", Const(0)),
        (* 2 *) Await(Rd("step")),
        (* 3 *) Assign("awaited", Const(1)),
        (* 4 *) Await(Rd("step")),
        (* 5 *) Assign("awaited", Const(2)) >>),
                 Sequential("looping", <<
        (* 1 *) Assign("looped", Const(0)),
        (* 2 *) While(Inv("step"), 4),
        (* 3 *) EndWhile(2),
        (* 4 *) Assign("looped", Const(1)),
        (* 5 *) While(Inv("step"), 7),
        (* 6 *) EndWhile(5),
        (* 7 *) Assign("looped", Const(2)) >>) >>]

\* 06_functions: ExampleFn
ExampleFn ==
    [sigs |-> [inp_a |-> PortIn(1), inp_b |-> PortIn(1), inp_c |-> PortIn(1),
               sum_1 |-> PortOut(1, NoValue), sum_2 |-> PortOut(1, NoValue),
               temp_1 |-> Temporary(1), temp_2 |-> Temporary(1)],
     ctxs |-> << Concurrent("logic", <<
        (* 1 *) AssignCall("sum_1", "add_all", << "inp_a", "inp_b", "inp_c" >>),
        (* 2 *) AssignCall("sum_2", "add_all", << "inp_a", "inp_b", "inp_c" >>) >>) >>]

\* a function that calls itself with the arguments it was called with:
\* def add_forever(first, *rest): return first + add_forever(first, *rest)
AddForever ==
    [sigs |-> [inp_a |-> PortIn(1), sum_1 |-> PortOut(1, NoValue),
               sum_2 |-> PortOut(1, NoValue)],
     ctxs |-> << Concurrent("logic", <<
                    AssignCall("sum_1", "add_forever", << "inp_a" >>) >>),
                 Concurrent("other", << Assign("sum_2", Rd("inp_a")) >>) >>]

\* a Temporary created in one state of a coroutine and used in the next
TemporaryAcrossStates ==
    [sigs |-> [inp |-> PortIn(1), step |-> PortIn(1),
               output |-> PortOut(1, 0), local |-> PortOut(1, 0),
               temp_1 |-> Temporary(1), temp_2 |-> Temporary(1)],
     ctxs |-> << Sequential("crossing", <<
        (* 1 *) AssignTemp("temp_1", Inv("inp")),
        (* 2 *) Await(Rd("step")),
        (* 3 *) Assign("output", Rd("temp_1")) >>),
                 Sequential("single_state", <<
        (* 1 *) Await(Rd("step")),
        (* 2 *) AssignTemp("temp_2", Inv("inp")),
        (* 3 *) Assign("local", Rd("temp_2")) >>) >>]

\* object.width == w, known to the compiler
WidthIs(obj, w) == Const(IF obj.w = w THEN 1 ELSE 0)

\* part_001: ExampleAssert
ExampleAssert ==
    [sigs |-> [input |-> PortIn(DataWidth), output |-> PortOut(DataWidth, NoValue)],
     ctxs |-> << Sequential("example_for", <<
        (* 1 *) Assertion(Ne("input", 2)),
        (* 2 *) Assertion(WidthIs(PortIn(DataWidth), DataWidth)),
        (* 3 *) StaticAssert(WidthIs(PortIn(DataWidth), DataWidth)) >>) >>]

\* assertions with constant conditions that do not hold
FailingAssert ==
    [sigs |-> [input |-> PortIn(1), a |-> PortOut(1, 0), b |-> PortOut(1, 0),
               c |-> PortOut(1, 0)],
     ctxs |-> << Sequential("constant_false", <<
        (* 1 *) Assign("a", Rd("input")),
        (* 2 *) Assertion(WidthIs(PortIn(1), 2)) >>),
                 Sequential("static_false", <<
        (* 1 *) StaticAssert(WidthIs(PortIn(1), 2)),
        (* 2 *) Assign("b", Rd("input")) >>),
                 Sequential("runtime", <<
        (* 1 *) Assertion(Rd("input")),
        (* 2 *) Assign("c", Rd("input")) >>) >>]

\* 09_coroutines: TransmitterExample, send a coroutine
TransmitterExample ==
    [sigs |-> [reset |-> PortIn(1), data |-> PortIn(DataWidth),
               tx |-> PortOut(1, NoValue),
               cnt |-> Signal(4, 8), buffer |-> Signal(DataWidth, NoValue)],
     ctxs |-> << SequentialReset("proc_use_transmitter", "reset", <<
        (* 1 *) Call("send", [data |-> Obj("data"), _tx |-> Obj("tx")]) >>) >>]

\* 09_coroutines: TransmitterExample, alternative implementation: the
\* serialization has its own sequential context, send (not a coroutine, inlined
\* into its caller) forwards the data alongside a start signal
TransmitterExampleParallel ==
    [sigs |-> [reset |-> PortIn(1), data |-> PortIn(1),
               tx |-> PortOut(1, NoValue),
               _start |-> Signal(1, 0), _data |-> Signal(1, NoValue),
               _ready |-> Signal(1, 0),
               cnt |-> Signal(4, 8), buffer |-> Signal(1, NoValue)],
     ctxs |-> << SequentialReset("proc_serial_transmitter", "reset", <<
        (* 1 *) While(Inv("_start"), 4),
        (* 2 *)   Assign("_ready", Const(1)),
        (* 3 *) EndWhile(1),
        (* 4 *) Assign("_ready", Const(0)),
        (* 5 *) Assign("buffer", Rd("_data")),
        (* 6 *) Assign("cnt", Const(8)),
        (* 7 *) While(Rd("cnt"), 12),
        (* 8 *)   Assign("cnt", Dec("cnt")),
        (* 9 *)   Assign("tx", Bit("buffer", 0)),
        (* 10 *)  AssignLo("buffer", HiBits("buffer")),
        (* 11 *) EndWhile(7) >>),
                 SequentialReset("proc_use_transmitter", "reset", <<
        (* 1 *) Await(Rd("_ready")),
        (* 2 *) Assertion(Rd("_ready")),
        (* 3 *) Assign("_data", Rd("data")),
        (* 4 *) Push("_start", Const(1)) >>) >>]

DesignNames ==
    {"SerialReceiver", "CounterWhile", "ExampleBreak", "ExampleContinue",
     "NoDelay", "SimpleCoroutine", "UsingContinue", "CoroutineExample",
     "Blink", "Inverter", "ContinueNoTransition", "ContinueOnePath",
     "DriveTwice", "DriveTwiceSwapped", "DriveConditional", "DrivePartial",
     "SharedSignal", "CounterCoroutine", "ExampleIf", "ExampleIfNot",
     "IgnoredBranch", "ExampleZip", "ForEmpty", "ExampleForBreak",
     "ExampleForBreakNoElse", "SignalAndVariable", "VariableInConcurrent",
     "PushAndNextAssigned", "PushNoDefault", "WriteInput", "RuntimeIf",
     "SuspendingConcurrent", "References", "FailingContext",
     "TwoRuns", "Counter", "CounterReset", "TwoGuards",
     "AwaitAsWhile", "ExampleFn", "AddForever",
     "TemporaryAcrossStates", "ExampleAssert", "FailingAssert",
     "TransmitterExample", "TransmitterExampleParallel"}

Design(n) ==
    CASE n = "SerialReceiver" -> SerialReceiver
      [] n = "CounterWhile" -> CounterWhile
      [] n = "ExampleBreak" -> ExampleBreak
      [] n = "ExampleContinue" -> ExampleContinue
      [] n = "NoDelay" -> NoDelay
      [] n = "SimpleCoroutine" -> SimpleCoroutine
      [] n = "UsingContinue" -> UsingContinue
      [] n = "CoroutineExample" -> CoroutineExample
      [] n = "Blink" -> Blink
      [] n = "Inverter" -> Inverter
      [] n = "ContinueNoTransition" -> ContinueNoTransition
      [] n = "ContinueOnePath" -> ContinueOnePath
      [] n = "DriveTwice" -> DriveTwice
      [] n = "DriveTwiceSwapped" -> DriveTwiceSwapped
      [] n = "DriveConditional" -> DriveConditional
      [] n = "DrivePartial" -> DrivePartial
      [] n = "SharedSignal" -> SharedSignal
      [] n = "CounterCoroutine" -> CounterCoroutine
      [] n = "ExampleIf" -> ExampleIf
      [] n = "ExampleIfNot" -> ExampleIfNot
      [] n = "IgnoredBranch" -> IgnoredBranch
      [] n = "ExampleZip" -> ExampleZip
      [] n = "ForEmpty" -> ForEmpty
      [] n = "ExampleForBreak" -> ExampleForBreak
      [] n = "ExampleForBreakNoElse" -> ExampleForBreakNoElse
      [] n = "SignalAndVariable" -> SignalAndVariable
      [] n = "VariableInConcurrent" -> VariableInConcurrent
      [] n = "PushAndNextAssigned" -> PushAndNextAssigned
      [] n = "PushNoDefault" -> PushNoDefault
      [] n = "WriteInput" -> WriteInput
      [] n = "RuntimeIf" -> RuntimeIf
      [] n = "SuspendingConcurrent" -> SuspendingConcurrent
      [] n = "References" -> References
      [] n = "FailingContext" -> FailingContext
      [] n = "TwoRuns" -> TwoRuns
      [] n = "Counter" -> Counter
      [] n = "CounterReset" -> CounterReset
      [] n = "ExampleFn" -> ExampleFn
      [] n = "AddForever" -> AddForever
      [] n = "ExampleAssert" -> ExampleAssert
      [] n = "FailingAssert" -> FailingAssert
      [] n = "TransmitterExample" -> TransmitterExample
      [] n = "TransmitterExampleParallel" -> TransmitterExampleParallel
      [] n = "TemporaryAcrossStates" -> TemporaryAcrossStates
      [] n = "TwoGuards" -> TwoGuards
      [] n = "AwaitAsWhile" -> AwaitAsWhile

(***************************************************************************)
(* Values.                                                                 *)
(***************************************************************************)
Range(w) == 0 .. (Pow2(w) - 1)
Truthy(v) == v # 0

\* the value of expression e, read from the values env the objects hold
Eval(e, env, sigs) ==
    CASE e.k = "const"  -> e.v
      [] e.k = "rd"     -> env[e.n]
      [] e.k = "inv"    -> Pow2(sigs[e.n].w) - 1 - env[e.n]
      [] e.k = "dec"    -> (env[e.n] - 1) % Pow2(sigs[e.n].w)
      [] e.k = "inc"    -> (env[e.n] + 1) % Pow2(sigs[e.n].w)
      [] e.k = "eqz"    -> IF env[e.n] = 0 THEN 1 ELSE 0
      [] e.k = "lobits" -> env[e.n] % Pow2(sigs[e.n].w - 1)
      [] e.k = "hibits" -> env[e.n] \div 2
      [] e.k = "bit"    -> (env[e.n] \div Pow2(e.v)) % 2
      [] e.k = "add"    -> env[e.n] + env[e.v]
      [] e.k = "ne"     -> IF env[e.n] # e.v THEN 1 ELSE 0

\* the value the target holds after v is assigned to the part of it the
\* statement names; cur is the value it would hold otherwise
Assigned(part, w, cur, v) ==
    CASE part = "all" -> v % Pow2(w)
      [] part = "hi"  -> (v % Pow2(w - 1)) * 2 + (cur % 2)
      [] part = "lo"  -> (cur \div Pow2(w - 1)) * Pow2(w - 1) + (v % Pow2(w - 1))
      [] part = "b0"  -> (cur \div 2) * 2 + (v % 2)
      [] OTHER        -> LET b == Pow2(BitIndex(part))
                         IN  cur - ((cur \div b) % 2) * b + (v % 2) * b

(***************************************************************************)
(* Translation of a sequential context into states.                        *)
(***************************************************************************)
End(code) == Len(code) + 1

\* `await primitive` and while loops are the only statements that introduce
\* new states
IsSuspension(code, pc) == pc # End(code) /\ code[pc].op \in {"await", "while"}

\* a condition whose value the compiler knows
IsConstant(e) == e.k = "const"

(***************************************************************************)
(* Statements resolved by the compiler: calls of coroutines are inlined,   *)
(* if statements with a constant condition keep their active branch, for   *)
(* loops are unrolled.  What remains is the output the states are built    *)
(* from.                                                                   *)
(***************************************************************************)
\* 09_coroutines: async def coro_fn(step, output)
coro_fn == <<
    (* 1 *) Await(Rd("step")),
    (* 2 *) Assign("output", Const(1)),
    (* 3 *) Await(Inv("step")),
    (* 4 *) Assign("output", Const(2)),
    (* 5 *) Await(Rd("step")) >>

\* 09_coroutines: SerialTransmitter.send(self, data); serializes data and
\* sends it via the single bit tx signal
send == <<
    (* 1 *) Assign("cnt", Const(8)),
    (* 2 *) Assign("buffer", Rd("data")),
    (* 3 *) While(Rd("cnt"), 8),
    (* 4 *)   Assign("cnt", Dec("cnt")),
    (* 5 *)   Assign("_tx", Bit("buffer", 0)),
    (* 6 *)   AssignLo("buffer", HiBits("buffer")),
    (* 7 *) EndWhile(3) >>

Coroutine(fn) == CASE fn = "coro_fn" -> coro_fn [] fn = "send" -> send

\* expression e with the names bound by b replaced by the objects they are
\* bound to
SubstExpr(e, b) ==
    IF e.n \notin DOMAIN b THEN e
    ELSE IF b[e.n].part = "all" THEN [e EXCEPT !.n = b[e.n].n]
    ELSE Bit(b[e.n].n, BitIndex(b[e.n].part))

\* statement i with the names bound by b replaced
Subst(i, b) ==
    CASE i.op = "call" ->
           [i EXCEPT !.e = [x \in DOMAIN i.e |->
                              IF i.e[x].n \in DOMAIN b /\ i.e[x].part = "all"
                              THEN b[i.e[x].n] ELSE i.e[x]]]
      [] i.op \in {"for", "callfn"} -> i
      [] i.op = "bind" ->
           IF i.e.n \in DOMAIN b /\ i.e.part = "all"
           THEN [i EXCEPT !.e = b[i.e.n]] ELSE i
      [] OTHER ->
           LET r == [i EXCEPT !.e = SubstExpr(i.e, b)]
           IN  IF i.tgt \notin DOMAIN b THEN r
               ELSE [r EXCEPT !.tgt = b[i.tgt].n,
                              !.part = IF b[i.tgt].part = "all" THEN i.part
                                       ELSE b[i.tgt].part]

\* statement i with a jump into lo .. hi moved by d positions
Shift(i, lo, hi, d) == IF i.j \in lo .. hi THEN [i EXCEPT !.j = i.j + d] ELSE i

\* the statements s .. t of code placed at position `at`, names bound by b
Copy(code, s, t, at, b) ==
    [q \in 1 .. (t - s + 1) |-> Shift(Subst(code[s + q - 1], b), s, t + 1, at - s)]

\* code with the statements a .. b replaced by the statements R
Splice(code, a, b, R) ==
    LET d == Len(R) - (b - a + 1)
    IN  [q \in 1 .. (a - 1) |-> Shift(code[q], b + 1, End(code), d)]
        \o R
        \o [q \in 1 .. (Len(code) - b) |-> Shift(code[b + q], b + 1, End(code), d)]

\* (faulty) the call of a coroutine takes a state of its own
Inlined_ownState(code, p) ==
    << Await(Const(1)) >>
    \o Copy(Coroutine(code[p].tgt), 1, Len(Coroutine(code[p].tgt)), p + 1, code[p].e)

\* await of a coroutine: the function body, with its nested await
\* expressions, is inlined at the call site
Inlined(code, p) ==
    Copy(Coroutine(code[p].tgt), 1, Len(Coroutine(code[p].tgt)), p, code[p].e)

\* the if statement at position p has an else branch
HasElse(code, p) == code[p].j - 1 > p /\ code[code[p].j - 1].op = "else"

\* the position after the if statement at position p
EndIf(code, p) == IF HasElse(code, p) THEN code[code[p].j - 1].j ELSE code[p].j

\* (faulty) the first branch is translated whatever the condition is
ActiveBranch_first(code, p) ==
    << p + 1, IF HasElse(code, p) THEN code[p].j - 2 ELSE code[p].j - 1 >>

\* if with a constant condition: the first and last statement of the active
\* branch; only that branch is translated, the other one is ignored
ActiveBranch(code, p) ==
    IF Truthy(code[p].e.v)
    THEN << p + 1, IF HasElse(code, p) THEN code[p].j - 2 ELSE code[p].j - 1 >>
    ELSE << code[p].j, EndIf(code, p) - 1 >>

\* the for loop at position p has an else clause
HasForElse(code, p) == code[p].j <= Len(code) /\ code[code[p].j].op = "forelse"

\* the loop body consists of a single if statement that ends in a break
IsIfBreak(code, p) ==
    LET s == p + 1
        t == code[p].j - 2
    IN  /\ s < t
        /\ code[s].op = "if" /\ ~IsConstant(code[s].e) /\ code[s].j = t + 1
        /\ code[t].op = "break" /\ code[t].j = p

\* the position after the for loop at position p and its else clause
EndFor_(code, p) ==
    IF IsIfBreak(code, p) /\ HasForElse(code, p)
    THEN code[code[p].j].j ELSE code[p].j

\* (faulty) the last element of the sequence gets no copy of the body
Unrolled_dropLast(code, p) ==
    LET s == p + 1
        m == code[p].j - 2 - p
        N == Len(code[p].e) - 1
    IN  [q \in 1 .. (N * m) |->
            LET c == ((q - 1) \div m) + 1
                r == ((q - 1) % m) + 1
            IN  Shift(Subst(code[s + r - 1], code[p].e[c]), s, s + m, p + (c - 1) * m - s)]

\* for loops are unrolled at compile time: one copy of the body per element
\* of the sequence, in order, the loop variables bound to that element
Unrolled(code, p) ==
    LET s == p + 1
        m == code[p].j - 2 - p
        N == Len(code[p].e)
    IN  [q \in 1 .. (N * m) |->
            LET c == ((q - 1) \div m) + 1
                r == ((q - 1) % m) + 1
            IN  Shift(Subst(code[s + r - 1], code[p].e[c]), s, s + m, p + (c - 1) * m - s)]

\* (faulty) the loop is simply unrolled, each break ending its own copy
Chained_unrolled(code, p) ==
    LET m == code[p].j - 2 - p
        N == Len(code[p].e)
        U == Unrolled(code, p)
        F == IF HasForElse(code, p)
             THEN Copy(code, code[p].j + 1, EndFor_(code, p) - 1, p + N * m, << >>)
             ELSE << >>
    IN  [q \in 1 .. (N * m) |->
            IF q % m = 0 THEN Else(p + q) ELSE U[q]] \o F

\* the special case: the loop is turned into a chain of if-else statements,
\* the else clause of the loop placed in the innermost else branch
Chained(code, p) ==
    LET m == code[p].j - 2 - p
        N == Len(code[p].e)
        U == Unrolled(code, p)
        F == IF HasForElse(code, p)
             THEN Copy(code, code[p].j + 1, EndFor_(code, p) - 1, p + N * m, << >>)
             ELSE << >>
    IN  [q \in 1 .. (N * m) |->
            IF q % m = 0 THEN Else(p + N * m + Len(F)) ELSE U[q]] \o F

\* name = obj at position p: the statements after it, with the name replaced
\* by the object; all references to the same object are interchangeable
Referenced(code, p) ==
    Copy(code, p + 1, Len(code), p, (code[p].tgt :> code[p].e))

\* the Temporary that holds the result of the call at recursion depth d
Temp(d) == CASE d = 1 -> "temp_1" [] d = 2 -> "temp_2" [] OTHER -> "temp_3"

\* (faulty) the recursion ends one call early
IsBaseCase_early(fn, args) == fn = "add_all" /\ Len(Tail(args)) <= 1

\* add_all: if len(rest) == 0: return first
IsBaseCase(fn, args) == fn = "add_all" /\ Len(Tail(args)) = 0

\* the arguments of the recursive call: add_all(*rest); add_forever calls
\* itself with the arguments it was called with
RestArgs(fn, args) == IF fn = "add_all" THEN Tail(args) ELSE args

\* the call fn(*args) inlined at recursion depth `depth`: the statements that
\* compute the returned value, the object that holds it and the number of
\* calls inlined; compile time recursion is supported as long as the maximal
\* recursion depth is known at compile time
RECURSIVE Returned(_, _, _)
Returned(fn, args, depth) ==
    IF depth > MaxDepth
    THEN [status |-> "UnboundedRecursionError", code |-> << >>, result |-> "",
          calls |-> depth - 1]
    ELSE IF IsBaseCase(fn, args)
    THEN [status |-> "ok", code |-> << >>, result |-> args[1], calls |-> 1]
    ELSE LET r == Returned(fn, RestArgs(fn, args), depth + 1)
         IN  IF r.status # "ok" THEN r
             ELSE [status |-> "ok",
                   code |-> r.code \o << AssignTemp(Temp(depth), Add(args[1], r.result)) >>,
                   result |-> Temp(depth),
                   calls |-> r.calls + 1]

\* t <<= fn(*args) at position p: the function is inlined, its result is
\* assigned to t
InlinedFn(code, p) ==
    LET r == Returned(code[p].e.fn, code[p].e.args, 1)
    IN  r.code \o << Assign(code[p].tgt, Rd(r.result)) >>

\* (faulty) the compiler evaluates the condition of every assertion
CompileTimeChecked_all(i) == i.op \in {"assert", "static_assert"}

\* CoHDL attempts to check Python assertions at compile time: assertions with
\* constant conditions are evaluated by the compiler; static_assert is
\* always evaluated at compile time
CompileTimeChecked(i) ==
    i.op = "static_assert" \/ (i.op = "assert" /\ IsConstant(i.e))

\* a statement the compiler resolves
IsResolved(i) ==
    \/ i.op \in {"call", "for", "bind"}
    \/ (CompileTimeChecked(i) /\ Truthy(i.e.v))
    \/ (i.op = "if" /\ IsConstant(i.e))
    \/ (i.op = "callfn" /\ Returned(i.e.fn, i.e.args, 1).status = "ok")

\* code with the statement at position p resolved
Expand(code, p) ==
    CASE code[p].op = "call" -> Splice(code, p, p, Inlined(code, p))
      [] code[p].op = "if" ->
           LET r == ActiveBranch(code, p)
           IN  Splice(code, p, EndIf(code, p) - 1, Copy(code, r[1], r[2], p, << >>))
      [] code[p].op = "bind" -> Splice(code, p, Len(code), Referenced(code, p))
      [] code[p].op = "callfn" -> Splice(code, p, p, InlinedFn(code, p))
      [] code[p].op \in {"assert", "static_assert"} -> Splice(code, p, p, << >>)
      [] code[p].op = "for" ->
           Splice(code, p, EndFor_(code, p) - 1,
                  IF IsIfBreak(code, p) THEN Chained(code, p) ELSE Unrolled(code, p))

\* the output of a context: its statements with nothing left to resolve
RECURSIVE Lower(_)
Lower(code) ==
    LET P == { p \in 1 .. Len(code) : IsResolved(code[p]) }
    IN  IF P = {} THEN code
        ELSE Lower(Expand(code, CHOOSE p \in P : \A q \in P : p <= q))

\* (faulty) the first await or while is the initial state, also when
\* statements precede it
InitState_firstSuspension(code) ==
    LET S == { p \in 1 .. Len(code) : IsSuspension(code, p) }
    IN  IF S = {} THEN 0 ELSE CHOOSE p \in S : \A q \in S : p <= q

\* the state a context starts in, and restarts in at the end of the
\* coroutine: the wait state of a leading await/while, else the state
\* (numbered 0) that holds the statements before the first suspension
InitState(code) == IF Len(code) > 0 /\ IsSuspension(code, 1) THEN 1 ELSE 0

\* where a state hands control to when its condition is true / false
Taken(code, s) == s + 1
Exit(code, h) == code[h].j

\* the statements the loop head duplicated at a continue statement leads to:
\* the loop body, and for a runtime variable condition the code after the loop
ContinueTargets(code, h) ==
    IF IsConstant(code[h].e)
    THEN (IF Truthy(code[h].e.v) THEN {Taken(code, h)} ELSE {Exit(code, h)})
    ELSE {Taken(code, h), Exit(code, h)}

\* (faulty) break returns to the loop head, where the condition is tested
BreakTarget_loopHead(code, h) == h

\* break: the code following the loop
BreakTarget(code, h) == Exit(code, h)

\* the positions control can move to from pc without a transition
Flow(code, pc) ==
    IF pc = End(code) THEN {}
    ELSE LET i == code[pc] IN
         CASE i.op \in {"assign", "assert"} -> {pc + 1}
           [] i.op = "if"       -> {pc + 1, i.j}
           [] i.op = "else"     -> {i.j}
           [] i.op = "break"    -> {BreakTarget(code, i.j)}
           [] i.op = "continue" -> ContinueTargets(code, i.j)
           [] OTHER             -> {}

RECURSIVE Closure(_, _, _)
Closure(code, frontier, seen) ==
    IF frontier = {} THEN seen
    ELSE LET new == (UNION {Flow(code, p) : p \in frontier}) \ (seen \cup frontier)
         IN  Closure(code, new, seen \cup frontier)

\* every position reachable from the positions `from` within one state
Region(code, from) == Closure(code, from, {})

\* the state a transition placed at position pc leads to
TransitionTarget(code, pc) ==
    IF pc = End(code) THEN InitState(code)
    ELSE IF code[pc].op = "endwhile" THEN code[pc].j
    ELSE pc

IsTransition(code, pc) ==
    pc = End(code) \/ code[pc].op \in {"await", "while", "endwhile"}

\* where the statements of state s start
Entry(code, s) ==
    IF s = 0 THEN {1}
    ELSE IF code[s].op = "await" THEN {Taken(code, s)}
    ELSE ContinueTargets(code, s)

\* the states state s has a transition to
Successors(code, s) ==
    (IF s # 0 /\ code[s].op = "await" THEN {s} ELSE {})
    \cup { TransitionTarget(code, p) :
             p \in { q \in Region(code, Entry(code, s)) : IsTransition(code, q) } }

RECURSIVE Discover(_, _, _)
Discover(code, frontier, seen) ==
    IF frontier = {} THEN seen
    ELSE LET new == (UNION {Successors(code, s) : s \in frontier}) \ (seen \cup frontier)
         IN  Discover(code, new, seen \cup frontier)

\* (faulty) the transition before a continue statement is not checked
HasTransitionBefore_always(code, k) == TRUE

\* a continue statement is replaced by a copy of the code at the start of
\* the loop; that is only possible when a transition lies between the start
\* of the loop and the continue statement, else the copy contains the
\* continue statement itself
HasTransitionBefore(code, k) == k \notin Region(code, {Taken(code, code[k].j)})

\* (faulty) a transition written anywhere between the start of the loop and
\* the continue statement is accepted, whatever branch it is in
ContinueError_anyBranch(code) ==
    \E k \in 1 .. Len(code) :
        /\ code[k].op = "continue"
        /\ \A q \in (code[k].j + 1) .. (k - 1) : ~IsSuspension(code, q)

\* the compiler produces an error: the duplicated code would contain the
\* continue statement itself, leading to infinite recursion
ContinueError(code) ==
    \E k \in 1 .. Len(code) :
        code[k].op = "continue" /\ ~HasTransitionBefore(code, k)

NoGraph == [init |-> NoValue, states |-> {}, trans |-> {}, numbers |-> << >>]

\* the numbers of S in increasing order
RECURSIVE Sorted(_)
Sorted(S) ==
    IF S = {} THEN << >>
    ELSE LET m == CHOOSE x \in S : \A y \in S : x <= y
         IN  << m >> \o Sorted(S \ {m})

\* the states in the order they are discovered: those in `order` so far,
\* those in `queue` with their successors still to be looked at
RECURSIVE Numbered(_, _, _)
Numbered(code, queue, order) ==
    IF queue = << >> THEN order
    ELSE LET new == Sorted(Successors(code, Head(queue))
                             \ { order[i] : i \in 1 .. Len(order) })
         IN  Numbered(code, Tail(queue) \o new, order \o new)

\* the states of a context, numbered in the order of their discovery
\* starting at the initial state: the state at place i has number i
StateNumbers(code) == Numbered(code, << InitState(code) >>, << InitState(code) >>)

\* (faulty) the end of the context is a state of its own
StateGraph_finalState(code) ==
    LET S == Discover(code, {InitState(code)}, {})
    IN  [init |-> InitState(code), states |-> S \cup {End(code)},
         trans |-> { <<s, t>> \in S \X S : t \in Successors(code, s) }
                   \cup { << End(code), InitState(code) >> },
         numbers |-> StateNumbers(code) \o << End(code) >>]

StateGraph(code) ==
    LET S == Discover(code, {InitState(code)}, {})
    IN  [init |-> InitState(code), states |-> S,
         trans |-> { <<s, t>> \in S \X S : t \in Successors(code, s) },
         numbers |-> StateNumbers(code)]

\* (faulty) only the assignments no condition precedes are recorded
Drivers_unconditional(code) ==
    { code[k].tgt : k \in { q \in 1 .. Len(code) :
                              \A p \in 1 .. q : code[p].op = "assign" } }

\* the Signals a context drives
Drivers(code) == { code[k].tgt : k \in { q \in 1 .. Len(code) : code[q].op = "assign" } }

\* the Signals a context applies the push assignment to
PushTargets(code) ==
    { code[k].tgt : k \in { q \in 1 .. Len(code) :
                              code[q].op = "assign" /\ code[q].mode = "PUSH" } }

\* (faulty) only a next assignment that follows a push assignment is found
PushAndNext_pushFirst(code) ==
    { n \in PushTargets(code) :
        \E p, q \in 1 .. Len(code) :
            /\ p < q
            /\ code[p].op = "assign" /\ code[p].tgt = n /\ code[p].mode = "PUSH"
            /\ code[q].op = "assign" /\ code[q].tgt = n /\ code[q].mode = "NEXT" }

\* the Signals a context applies both the push and the next assignment to:
\* the two are mutually exclusive
PushAndNext(code) ==
    { n \in PushTargets(code) :
        \E q \in 1 .. Len(code) :
            code[q].op = "assign" /\ code[q].tgt = n /\ code[q].mode = "NEXT" }

\* (faulty) the default value of the target of a push is not looked at
PushWithoutDefault_unchecked(code, sigs) == {}

\* push assignment is only defined for signals with default values
PushWithoutDefault(code, sigs) == { n \in PushTargets(code) : sigs[n].d = NoValue }

\* (faulty) the direction of an assigned port is not looked at
WritesInput_unchecked(code, sigs) == {}

\* it is not possible to write to input ports
WritesInput(code, sigs) == { n \in Drivers(code) : sigs[n].dir = "in" }

\* (faulty) Variables are taken for Signals
AssignsVariable_asSignal(code, sigs) == {}

\* the Variables a context assigns, and those its expressions read
AssignsVariable(code, sigs) == { n \in Drivers(code) : sigs[n].dir = "var" }
ReadsVariable(code, sigs) ==
    { n \in DOMAIN sigs :
        /\ sigs[n].dir = "var"
        /\ \E q \in 1 .. Len(code) :
              code[q].op \in {"assign", "if", "await", "while"} /\ code[q].e.n = n }

\* (faulty) if statements are not looked for
RuntimeIfs_unchecked(code) == {}

\* the if statements left in the output: those with a type qualified condition
RuntimeIfs(code) == { q \in 1 .. Len(code) : code[q].op = "if" }

\* (faulty) only await expressions are looked for
Suspensions_awaitOnly(code) == { q \in 1 .. Len(code) : code[q].op = "await" }

\* the statements of the output that introduce states: the await expressions
\* and while loops, those of inlined coroutines included
Suspensions(code) == { q \in 1 .. Len(code) : IsSuspension(code, q) }

\* (faulty) every reference counts as one within the state of the Temporary
SingleState_always(code, p, q) == TRUE

\* the statements at positions p < q belong to a single state: no await or
\* while lies between them;
\* inside coroutines the usage of a Temporary is restricted to a single state
SingleState(code, p, q) == \A x \in (p + 1) .. q : ~IsSuspension(code, x)

\* the positions that reference the value of Temporary t
ReferencesOf(code, t) ==
    { q \in 1 .. Len(code) :
        /\ code[q].op \in {"assign", "if", "await", "while"}
        /\ code[q].e.k # "const"
        /\ (code[q].e.n = t \/ (code[q].e.k = "add" /\ code[q].e.v = t)) }

\* the diagnostics of a context that are not errors: the Temporaries whose
\* computed value is referenced across a state boundary
Warnings(code, sigs) ==
    { t \in { n \in Drivers(code) : sigs[n].dir = "tmp" } :
        \E p \in 1 .. Len(code) : \E q \in ReferencesOf(code, t) :
            /\ code[p].op = "assign" /\ code[p].tgt = t
            /\ p < q
            /\ ~SingleState(code, p, q) }

\* the assertions the compiler evaluated that do not hold
FailedAssertions(code) == { q \in 1 .. Len(code) : CompileTimeChecked(code[q]) }

\* the calls whose recursion depth could not be resolved
Unbounded(code) == { q \in 1 .. Len(code) : code[q].op = "callfn" }

\* what the compiler reports for the output of a context
Validate(kind, code, sigs) ==
    IF Unbounded(code) # {}
    THEN "UnboundedRecursionError"
    ELSE IF FailedAssertions(code) # {}
    THEN "CompileTimeAssertionError"
    ELSE IF kind = "concurrent" /\ Suspensions(code) # {}
    THEN "InvalidSuspensionContextError"
    ELSE IF \/ PushAndNext(code) # {}
            \/ PushWithoutDefault(code, sigs) # {}
            \/ WritesInput(code, sigs) # {}
            \/ kind = "concurrent" /\ AssignsVariable(code, sigs) # {}
    THEN "InvalidAssignmentModeError"
    ELSE IF kind = "concurrent"
            /\ (RuntimeIfs(code) # {} \/ ReadsVariable(code, sigs) # {})
    THEN "UnsupportedConstructError"
    ELSE IF kind = "sequential" /\ ContinueError(code)
    THEN "UnboundedDuplicationError"
    ELSE "ok"

\* the names the loops and generator expressions of a function bind
LoopVariables(code, p) ==
    IF code[p].op = "for" /\ Len(code[p].e) > 0 THEN DOMAIN code[p].e[1] ELSE {}

\* (faulty) a loop variable counts as a definition of its name
Redefined_loopVariables(code) ==
    { n \in UNION { {code[p].tgt} \cup LoopVariables(code, p) : p \in 1 .. Len(code) } :
        \E p, q \in 1 .. Len(code) :
            /\ p < q
            /\ (code[p].op = "bind" /\ code[p].tgt = n) \/ n \in LoopVariables(code, p)
            /\ (code[q].op = "bind" /\ code[q].tgt = n) \/ n \in LoopVariables(code, q) }

\* the names a function defines more than once: every name can only be
\* defined once per function, for loops and generator expressions excepted
Redefined(code) ==
    { n \in { code[p].tgt : p \in 1 .. Len(code) } :
        \E p, q \in 1 .. Len(code) :
            /\ p < q
            /\ code[p].op = "bind" /\ code[p].tgt = n
            /\ code[q].op = "bind" /\ code[q].tgt = n }

\* the statements emitted for a context: an error is fatal for the
\* compilation of the context, nothing is emitted for it
Emitted(status, out) == IF status # "ok" THEN << >> ELSE out

\* (faulty) the states of a context are numbered after those of the contexts
\* translated before it: a second run starts one position later
Translation_numberedOn(ctx, sigs) ==
    LET out == IF ctx.name = "second_run"
               THEN << Assign("output", Rd("output")) >> \o
                    Copy(Lower(ctx.code), 1, Len(Lower(ctx.code)), 2, << >>)
               ELSE Lower(ctx.code)
        status == IF Redefined(ctx.code) # {} THEN "RedefinitionError"
                  ELSE Validate(ctx.kind, out, sigs)
    IN  [status |-> status, output |-> Emitted(status, out),
         graph |-> IF status = "ok" /\ ctx.kind = "sequential"
                   THEN StateGraph(out) ELSE NoGraph,
         drivers |-> IF status = "ok" THEN Drivers(out) ELSE {}]

\* (faulty) the statements translated before the error are emitted
Translation_partial(ctx, sigs) ==
    LET out == Lower(ctx.code)
        status == IF Redefined(ctx.code) # {} THEN "RedefinitionError"
                  ELSE Validate(ctx.kind, out, sigs)
    IN  [status |-> status, output |-> out,
         graph |-> IF status = "ok" /\ ctx.kind = "sequential"
                   THEN StateGraph(out) ELSE NoGraph,
         drivers |-> IF status = "ok" THEN Drivers(out) ELSE {}]

\* the outcome of translating one context
Translation(ctx, sigs) ==
    LET out == Lower(ctx.code)
        status == IF Redefined(ctx.code) # {} THEN "RedefinitionError"
                  ELSE Validate(ctx.kind, out, sigs)
    IN  IF status # "ok"
        THEN [status |-> status, output |-> Emitted(status, out),
              graph |-> NoGraph, drivers |-> {}]
        ELSE [status |-> "ok",
              output |-> Emitted(status, out),
              graph |-> IF ctx.kind = "sequential" THEN StateGraph(out) ELSE NoGraph,
              drivers |-> Drivers(out)]

(***************************************************************************)
(* Execution of the translated contexts: one state per clock edge.         *)
(***************************************************************************)
\* (faulty) an await whose argument is already true does not suspend
AwaitReached_ifFalse(code, sigs, env, pc) ==
    IF Truthy(Eval(code[pc].e, env, sigs)) THEN pc + 1 ELSE NoValue

\* (faulty) every transition whose guard is true assigns the next state and
\* the one assigned last takes effect: an await followed by another await
\* does not end the edge
AwaitReached_lastWins(code, sigs, env, pc) ==
    IF \E q \in (pc + 1) .. Len(code) : code[q].op = "await" THEN pc + 1 ELSE NoValue

\* Where control continues, within the same clock edge, when it reaches an
\* await expression: nowhere, each wait takes at least one clock cycle even
\* if the argument is already true
AwaitReached(code, sigs, env, pc) == NoValue

\* (faulty) the condition of a while is evaluated at the edge that reaches it
WhileReached_evaluate(code, sigs, env, pc) ==
    IF Truthy(Eval(code[pc].e, env, sigs)) THEN pc + 1 ELSE code[pc].j

\* ... when it reaches a while: nowhere, each occurrence of while starts a
\* new state and the condition is evaluated in the next clock cycle
WhileReached(code, sigs, env, pc) == NoValue

\* (faulty) a wait state continues while the argument of its await is false
AwaitResume_whileFalse(code, sigs, env, s) ==
    IF Truthy(Eval(code[s].e, env, sigs)) THEN NoValue ELSE Taken(code, s)

\* (faulty) a wait state does not test the argument of its await
AwaitResume_always(code, sigs, env, s) == s + 1

\* Where a wait state continues at a clock edge: after the await once its
\* argument is truthy, else nowhere
AwaitResume(code, sigs, env, s) ==
    IF Truthy(Eval(code[s].e, env, sigs)) THEN Taken(code, s) ELSE NoValue

\* (faulty) the state of a while runs the loop body before it looks at the
\* condition
WhileResume_bodyFirst(code, sigs, env, h) == Taken(code, h)

\* Where the state of a while continues: in the loop body while the
\* condition holds, else after the loop
WhileResume(code, sigs, env, h) ==
    IF Truthy(Eval(code[h].e, env, sigs)) THEN Taken(code, h) ELSE Exit(code, h)

\* (faulty) continue moves to the end of the loop body, which transitions to
\* the state of the loop head
ContinueReached_endOfBody(code, sigs, env, k) == code[code[k].j].j - 1

\* (faulty) continue ends the clock cycle: the loop starts again at the next
\* edge, in the state of the loop head
ContinueReached_ownState(code, sigs, env, k) == code[k].j

\* (faulty) with the condition false, continue hands over to the state of the
\* loop head, which tests the condition again at the next edge
ContinueReached_retest(code, sigs, env, k) ==
    IF Truthy(Eval(code[code[k].j].e, env, sigs))
    THEN Taken(code, code[k].j) ELSE code[k].j

\* continue: the code at the start of the loop, including the condition, is
\* duplicated at the continue location; for runtime variable loop conditions
\* the code immediately after the loop is duplicated as well, in case the
\* condition is false and the loop exits
ContinueReached(code, sigs, env, k) == WhileResume(code, sigs, env, code[k].j)

\* break: the code following the loop, up to and including the next
\* transition, replaces the break statement
BreakReached(code, sigs, env, k) == BreakTarget(code, code[k].j)

\* (faulty) the coroutine starts again at the edge that reaches its end
EndReached_sameEdge(code, sigs, env) == 1

\* ... when it reaches the end of the coroutine: nowhere, execution continues
\* from the start after one clock cycle
EndReached(code, sigs, env) == NoValue

Idle(sigs, s) ==
    [exec |-> IF s = 0 THEN << >> ELSE << s >>,
     upd  |-> [n \in DOMAIN sigs |-> NoValue],
     to   |-> s,
     cut  |-> FALSE]

\* (faulty) a Variable takes its new value at the end of the context
Visible_atEnd(mode, env, n, v) == env

\* the values the statements after an assignment of v to n read: a Variable
\* updates its value immediately, a Signal is updated once the end of the
\* context is reached
Visible(mode, env, n, v) ==
    IF mode = "VALUE" THEN [env EXCEPT ![n] = v] ELSE env

RECURSIVE Run(_, _, _, _, _)
Run(code, sigs, env, pc, acc) ==
    LET here == [acc EXCEPT !.exec = Append(@, pc)]
        stop == [here EXCEPT !.to = TransitionTarget(code, pc)]
    IN
    IF Len(acc.exec) >= MaxSteps THEN [acc EXCEPT !.cut = TRUE]
    ELSE IF pc = End(code)
    THEN LET n == EndReached(code, sigs, env)
         IN  IF n = NoValue THEN stop ELSE Run(code, sigs, env, n, here)
    ELSE LET i == code[pc] IN
      CASE i.op = "assign" ->
             LET cur == IF acc.upd[i.tgt] # NoValue THEN acc.upd[i.tgt] ELSE env[i.tgt]
                 new == Assigned(i.part, sigs[i.tgt].w, cur, Eval(i.e, env, sigs))
             IN  Run(code, sigs, Visible(i.mode, env, i.tgt, new), pc + 1,
                     [here EXCEPT !.upd[i.tgt] = new])
        [] i.op = "assert" -> Run(code, sigs, env, pc + 1, here)
        [] i.op = "if" ->
             Run(code, sigs, env,
                 IF Truthy(Eval(i.e, env, sigs)) THEN pc + 1 ELSE i.j, here)
        [] i.op = "else" -> Run(code, sigs, env, i.j, here)
        [] i.op = "break" ->
             Run(code, sigs, env, BreakReached(code, sigs, env, pc), here)
        [] i.op = "continue" ->
             Run(code, sigs, env, ContinueReached(code, sigs, env, pc), here)
        [] i.op = "await" ->
             LET n == AwaitReached(code, sigs, env, pc)
             IN  IF n = NoValue THEN stop ELSE Run(code, sigs, env, n, here)
        [] i.op = "while" ->
             LET n == WhileReached(code, sigs, env, pc)
             IN  IF n = NoValue THEN stop ELSE Run(code, sigs, env, n, here)
        [] i.op = "endwhile" -> stop

\* what state s of a context does at a clock edge
Step(code, sigs, env, s) ==
    IF s = 0 THEN Run(code, sigs, env, 1, Idle(sigs, s))
    ELSE LET n == IF code[s].op = "await"
                  THEN AwaitResume(code, sigs, env, s)
                  ELSE WhileResume(code, sigs, env, s)
         IN  IF n = NoValue THEN Idle(sigs, s)
             ELSE Run(code, sigs, env, n, Idle(sigs, s))

\* (faulty) the body is not wrapped: no edge is taken for a reset
ResetActive_never(ctx, env) == FALSE

\* the reset of the context is active; by default std.Reset is active high and
\* synchronous
ResetActive(ctx, env) == ctx.reset # "" /\ env[ctx.reset] = 1

\* what a context does at a clock edge with its reset active: the function
\* body is not executed, all Signals and Variables that are driven by the
\* context and have default values are reset; so is its current state
ResetBranch(code, sigs, driven) ==
    [exec |-> << >>,
     upd  |-> [n \in DOMAIN sigs |->
                 IF n \in driven /\ sigs[n].d # NoValue THEN sigs[n].d ELSE NoValue],
     to   |-> InitState(code),
     cut  |-> FALSE]

\* (faulty) the reset expression is inserted only in the states that hold a
\* push assignment
PushReset_whereAssigned(code, s) ==
    IF \E p \in Region(code, Entry(code, s)) :
          p # End(code) /\ code[p].op = "assign" /\ code[p].mode = "PUSH"
    THEN PushTargets(code) ELSE {}

\* the Signals assigned their default value at the start of an invocation
\* of the context in state s: the compiler inserts the reset expression at
\* the start of the context
PushReset(code, s) == PushTargets(code)

\* a concurrent context: its assignments hold continuously
RECURSIVE Settle(_, _, _, _)
Settle(code, sigs, env, k) ==
    IF k > Len(code) THEN env
    ELSE IF code[k].op # "assign" THEN Settle(code, sigs, env, k + 1)
    ELSE LET i == code[k]
             new == Assigned(i.part, sigs[i.tgt].w, env[i.tgt], Eval(i.e, env, sigs))
         IN  Settle(code, sigs, [env EXCEPT ![i.tgt] = new], k + 1)

RECURSIVE SettleAll(_, _, _, _)
SettleAll(ctxs, sigs, env, c) ==
    IF c > Len(ctxs) THEN env
    ELSE SettleAll(ctxs, sigs,
                   IF ctxs[c].kind = "concurrent"
                   THEN Settle(ctxs[c].code, sigs, env, 1) ELSE env,
                   c + 1)

Inputs(sigs) == { n \in DOMAIN sigs : sigs[n].dir = "in" }

\* the output Ports the contexts read: CoHDL allows to read from outputs, the
\* compiler inserts a buffer signal for each of them
ReadOutputs(ctxs, sigs) ==
    { n \in DOMAIN sigs :
        /\ sigs[n].dir = "out"
        /\ \E c \in DOMAIN ctxs : \E q \in 1 .. Len(ctxs[c].code) :
              /\ ctxs[c].code[q].op \in {"assign", "if", "await", "while"}
              /\ ctxs[c].code[q].e.k # "const"
              /\ ctxs[c].code[q].e.n = n }

\* (faulty) the port is assigned from its buffer at the clock edge, so it
\* holds the value the buffer had before the edge
BufferAssignment_clocked(bufs, before, vals) ==
    [n \in DOMAIN vals |-> IF n \in DOMAIN bufs THEN before[n] ELSE vals[n]]

\* the concurrent block `port <= buffer_port`: every Port with a buffer
\* signal holds the value of the buffer; bufs are the values of the buffers,
\* before those they held before, vals the values of everything else
BufferAssignment(bufs, before, vals) ==
    [n \in DOMAIN vals |-> IF n \in DOMAIN bufs THEN bufs[n] ELSE vals[n]]

(***************************************************************************)
(* The compiler run on one design, followed by the design running.         *)
(***************************************************************************)
VARIABLES
    design,    \* the design handed to the compiler
    compiled,  \* per context: "pending", "ok" or the error of its translation
    output,    \* per context: the statements of its translation
    graph,     \* per context: the state graph of its translation
    drivers,   \* per context: the Signals recorded as driven by it
    result,    \* "pending", "ok" or the error of the check of all contexts
    st,        \* per context: the current state of its automaton
    sig,       \* the value of every Port and Signal
    pre,       \* the values before the last clock edge
    buf,       \* the value of every buffer signal inserted for an output Port
    exec,      \* per context: the positions visited at the last clock edge
    cut        \* some clock edge visited more than MaxSteps positions

vars == << design, compiled, output, graph, drivers, result, st, sig, buf, pre, exec, cut >>

D == Design(design)
Ctxs == DOMAIN D.ctxs
\* the statements context c executes: its output
Code(c) == output[c]
\* the contexts as translated
Outputs == [c \in Ctxs |-> [D.ctxs[c] EXCEPT !.code = output[c]]]

\* the values Port or Signal n may hold: at power-up (initial) its default
\* value, any value of its type when it has none; later any value.  A
\* Temporary is no storage: it holds the result of its expression only
ValuesOf(sigs, n, initial) ==
    IF sigs[n].dir = "tmp" THEN {0}
    ELSE IF initial /\ sigs[n].d # NoValue THEN {sigs[n].d} ELSE Range(sigs[n].w)

RECURSIVE Valuations(_, _, _)
Valuations(sigs, names, initial) ==
    IF names = {} THEN { [n \in {} |-> 0] }
    ELSE LET n == CHOOSE x \in names : TRUE
         IN  { (n :> v) @@ f : v \in ValuesOf(sigs, n, initial),
                               f \in Valuations(sigs, names \ {n}, initial) }

Init ==
    /\ design \in DesignNames
    /\ compiled = [c \in Ctxs |-> "pending"]
    /\ output = [c \in Ctxs |-> << >>]
    /\ graph = [c \in Ctxs |-> NoGraph]
    /\ drivers = [c \in Ctxs |-> {}]
    /\ result = "pending"
    /\ st = [c \in Ctxs |-> NoValue]
    /\ sig \in Valuations(D.sigs, DOMAIN D.sigs, TRUE)
    /\ buf = [n \in {} |-> 0]
    /\ pre = sig
    /\ exec = [c \in Ctxs |-> << >>]
    /\ cut = FALSE

\* the compiler translates one entry of the list of synthesizable contexts
Translate(c) ==
    /\ result = "pending"
    /\ compiled[c] = "pending"
    /\ LET t == Translation(D.ctxs[c], D.sigs)
       IN  /\ compiled' = [compiled EXCEPT ![c] = t.status]
           /\ output' = [output EXCEPT ![c] = t.output]
           /\ graph' = [graph EXCEPT ![c] = t.graph]
           /\ drivers' = [drivers EXCEPT ![c] = t.drivers]
           /\ st' = [st EXCEPT ![c] = t.graph.init]
    /\ UNCHANGED << design, result, sig, buf, pre, exec, cut >>

\* (faulty) a context is compared with the contexts declared before it, and
\* only when it is a sequential context
MultipleDrivers_laterSequential(drv) ==
    { n \in UNION { drv[c] : c \in DOMAIN drv } :
        \E a, b \in DOMAIN drv :
            /\ a < b
            /\ Design(design).ctxs[b].kind = "sequential"
            /\ n \in drv[a] /\ n \in drv[b] }

\* Signals can be shared by multiple contexts but may only be driven by one
MultipleDrivers(drv) ==
    { n \in UNION { drv[c] : c \in DOMAIN drv } :
        \E a, b \in DOMAIN drv : a # b /\ n \in drv[a] /\ n \in drv[b] }

\* once every context is translated, the drivers of all Signals are checked
CheckDrivers ==
    /\ result = "pending"
    /\ \A c \in Ctxs : compiled[c] # "pending"
    /\ IF MultipleDrivers(drivers) # {}
       THEN /\ result' = "MultipleDriverError"
            /\ buf' = buf
            /\ sig' = sig
       ELSE /\ result' = "ok"
            /\ buf' = [n \in ReadOutputs(Outputs, D.sigs) |-> sig[n]]
            /\ sig' = SettleAll(Outputs, D.sigs, sig, 1)
    /\ pre' = sig'
    /\ UNCHANGED << design, compiled, output, graph, drivers, st, exec, cut >>

Runs(c) == compiled[c] = "ok" /\ D.ctxs[c].kind = "sequential"

\* the values after the clock edge: a Signal assigned by a context takes the
\* assigned value, a Signal with push assignments that was not assigned takes
\* its default value, every other Signal keeps its value
Merge(sigs, cur, out, resets) ==
    [n \in DOMAIN sigs |->
        LET by == { c \in DOMAIN out : out[c].upd[n] # NoValue }
        IN  IF by # {} THEN out[CHOOSE c \in by : TRUE].upd[n]
            ELSE IF n \in resets THEN sigs[n].d
            ELSE cur[n]]

\* the edge is over: the automata are in their next states, the inputs change
\* and the concurrent assignments follow
Commit(out, after) ==
    /\ buf' = [n \in DOMAIN buf |-> after[n]]
    /\ \E inp \in Valuations(D.sigs, Inputs(D.sigs), FALSE) :
          sig' = SettleAll(Outputs, D.sigs,
                           BufferAssignment(buf', buf, inp @@ after), 1)
    /\ st' = [c \in Ctxs |-> IF Runs(c) THEN out[c].to ELSE st[c]]
    /\ exec' = [c \in Ctxs |-> out[c].exec]
    /\ cut' = (cut \/ \E c \in Ctxs : out[c].cut)

\* the values the contexts read: the read of an output Port is served by its
\* buffer signal
Read == buf @@ sig

\* what every context does at the clock edge
Outcome ==
    [c \in Ctxs |->
        IF ~Runs(c) THEN Idle(D.sigs, 0)
        ELSE IF ResetActive(D.ctxs[c], Read)
        THEN ResetBranch(Code(c), D.sigs, drivers[c])
        ELSE Step(Code(c), D.sigs, Read, st[c])]

\* one active clock edge: every automaton executes its current state, the
\* assigned Signals take their new values, then the inputs change
ClockEdge ==
    /\ result = "ok"
    /\ LET out == Outcome
           resets == UNION { PushReset(Code(c), st[c]) : c \in { x \in Ctxs : Runs(x) } }
       IN  Commit(out, Merge(D.sigs, Read, out, resets))
    /\ pre' = sig
    /\ UNCHANGED << design, compiled, output, graph, drivers, result >>

Next ==
    \/ \E c \in Ctxs : Translate(c)
    \/ CheckDrivers
    \/ ClockEdge

Spec == Init /\ [][Next]_vars

(***************************************************************************)
(* Properties.                                                             *)
(***************************************************************************)
\* the contexts whose automaton has executed a clock edge
Ran == { c \in Ctxs : Runs(c) /\ exec[c] # << >> }

OpAt(c, pc) == IF pc = End(Code(c)) THEN "end" ELSE Code(c)[pc].op

\* the value the condition at position pc had at the last clock edge
CondBefore(c, pc) == Truthy(Eval(Code(c)[pc].e, pre, D.sigs))

Last(c) == exec[c][Len(exec[c])]

\* C1: an await reached at a clock edge ends the state there, also when its
\* argument is already true at that edge: no clock edge visits an await
\* between other statements, so the statement before and the statement after
\* an await never execute at the same edge; the statement after it executes
\* at the first later edge at which the argument is true.
C1_AwaitTakesOneCycle ==
    \A c \in Ran : \A i \in 1 .. Len(exec[c]) :
        OpAt(c, exec[c][i]) = "await" =>
            /\ i = 1 \/ i = Len(exec[c])
            /\ (i = Len(exec[c]) /\ i > 1) => st[c] = exec[c][i]
            /\ (i = 1 /\ CondBefore(c, exec[c][1])) =>
                  /\ Len(exec[c]) >= 2
                  /\ exec[c][2] = exec[c][1] + 1

\* an await was reached by statements executed at an edge at which its
\* argument was already true, and the automaton stopped in its wait state
C1_Witness ==
    \E c \in Ran :
        /\ Len(exec[c]) > 1
        /\ OpAt(c, Last(c)) = "await"
        /\ CondBefore(c, Last(c))
        /\ OpAt(c, exec[c][Len(exec[c]) - 1]) = "assign"
        /\ st[c] = Last(c)

\* C2: at the clock edge at which the break path is taken the automaton
\* executes the loop body S up to the break, then the statements T after the
\* loop, then takes T's transition, without visiting the loop again; in
\* ExampleBreak the edge visits 3 4 5 6 7 9 and the end of the coroutine,
\* exactly the 9 and end a normal loop exit visits, and returns to state 1.
C2_BreakRunsTail ==
    /\ \A c \in Ran : \A i \in 1 .. Len(exec[c]) :
          OpAt(c, exec[c][i]) = "break" =>
              LET h == Code(c)[exec[c][i]].j
                  x == Code(c)[h].j
              IN  /\ i < Len(exec[c])
                  /\ exec[c][i + 1] = x
                  /\ \A k \in (i + 1) .. Len(exec[c]) : exec[c][k] \notin h .. (x - 1)
                  /\ st[c] = TransitionTarget(Code(c), Last(c))
    /\ (design = "ExampleBreak" /\ 1 \in Ran /\ exec[1][1] = 3) =>
          /\ (pre["cnt"] # 0 /\ pre["break_loop"] = 1) =>
                /\ exec[1] = << 3, 4, 5, 6, 7, 9, 10 >>
                /\ st[1] = 1
                /\ sig["output"] = 0
                /\ sig["cnt"] = pre["cnt"] - 1
          /\ (pre["cnt"] # 0 /\ pre["break_loop"] = 0) =>
                /\ exec[1] = << 3, 4, 5, 6, 8 >>
                /\ st[1] = 3
          /\ pre["cnt"] = 0 =>
                /\ exec[1] = << 3, 9, 10 >>
                /\ st[1] = 1
                /\ sig["output"] = 0

C2_Witness ==
    /\ design = "ExampleBreak"
    /\ 1 \in Ran
    /\ exec[1] = << 3, 4, 5, 6, 7, 9, 10 >>
    /\ pre["cnt"] = 15

\* C3: at the clock edge at which the continue path is taken with the loop
\* condition true, the statements at the start of the loop execute at that
\* same edge and the automaton moves to the wait state of the await; no edge
\* is spent in the state of the loop head.
C3_ContinueRunsLoopHead ==
    /\ \A c \in Ran : \A i \in 1 .. Len(exec[c]) :
          (OpAt(c, exec[c][i]) = "continue"
             /\ CondBefore(c, Code(c)[exec[c][i]].j)) =>
              /\ i < Len(exec[c])
              /\ exec[c][i + 1] = Code(c)[exec[c][i]].j + 1
    /\ (design = "ExampleContinue" /\ 1 \in Ran /\ exec[1][1] = 6
          /\ pre["step"] = 1 /\ pre["continue_loop"] = 1 /\ pre["cnt"] # 0) =>
              /\ exec[1] = << 6, 7, 8, 4, 5, 6 >>
              /\ st[1] = 6
              /\ sig["output"] = pre["cnt"]
              /\ sig["cnt"] = pre["cnt"] - 1
    /\ (design = "UsingContinue" /\ 1 \in Ran /\ exec[1][1] = 3
          /\ pre["c_valid"] = 1) =>
              /\ exec[1] = << 3, 4, 5, 6, 2, 3 >>
              /\ st[1] = 3
              /\ sig["c_ready"] = 1

C3_Witness ==
    /\ design = "ExampleContinue"
    /\ 1 \in Ran
    /\ exec[1] = << 6, 7, 8, 4, 5, 6 >>
    /\ pre["cnt"] = 14

\* the sequential contexts without await and without while
NoSuspension == { c \in Ctxs : /\ D.ctxs[c].kind = "sequential"
                               /\ \A k \in 1 .. Len(Code(c)) :
                                     Code(c)[k].op \notin {"await", "while"} }

\* C4: a loop with a continue statement that some path reaches from the
\* start of the loop without a transition (while cond: if flag: continue) is
\* rejected with UnboundedDuplicationError and gets no state graph and no
\* automaton; in a context that is translated, no clock edge enters a loop
\* body and reaches a continue of that loop, and no edge runs without end.
C4_ContinueNeedsTransition ==
    /\ \A c \in Ctxs :
          (design \in {"ContinueNoTransition", "ContinueOnePath"}
             /\ compiled[c] # "pending") =>
              /\ compiled[c] = "UnboundedDuplicationError"
              /\ graph[c] = NoGraph
              /\ st[c] = NoValue
              /\ exec[c] = << >>
    /\ \A c \in Ctxs :
          (design \in {"ExampleContinue", "UsingContinue"}
             /\ compiled[c] # "pending") =>
              /\ compiled[c] = "ok"
              /\ graph[c].states # {}
    /\ ~cut
    /\ \A c \in Ran : \A i \in 1 .. Len(exec[c]) :
          OpAt(c, exec[c][i]) = "continue" =>
              \A k \in 1 .. (i - 1) :
                  /\ exec[c][k] # Code(c)[exec[c][i]].j + 1
                  /\ exec[c][k] # exec[c][i]

C4_Witness ==
    /\ design = "ContinueNoTransition"
    /\ compiled[1] = "UnboundedDuplicationError"
    /\ result = "ok"

\* C5: a sequential context without await and without while is translated
\* into exactly one state whose only transition leads back to it; every
\* clock edge executes the context from its first statement to its end.
C5_NoSuspensionOneState ==
    \A c \in NoSuspension :
        /\ compiled[c] = "ok" =>
              /\ Cardinality(graph[c].states) = 1
              /\ graph[c].states = {graph[c].init}
              /\ graph[c].trans = { << graph[c].init, graph[c].init >> }
              /\ st[c] = graph[c].init
        /\ c \in Ran =>
              /\ exec[c][1] = 1
              /\ Last(c) = End(Code(c))
              /\ \A i \in 1 .. (Len(exec[c]) - 1) : exec[c][i] < exec[c][i + 1]

C5_Witness ==
    /\ design = "Blink"
    /\ 1 \in Ran
    /\ exec[1] = << 1, 2, 3, 4, 6 >>
    /\ pre["led"] = 1
    /\ sig["led"] = 0

\* the values pushed to Signal n at the last clock edge of context c
Pushed(c, n) ==
    { i \in 1 .. Len(exec[c]) :
        /\ OpAt(c, exec[c][i]) = "assign"
        /\ Code(c)[exec[c][i]].mode = "PUSH"
        /\ Code(c)[exec[c][i]].tgt = n }

\* C6: after every clock edge of a context, in every state, a Signal with
\* push assignments in that context holds its default value unless a push
\* assignment executed at that edge, and then it holds the pushed value.
C6_PushIsOneCyclePulse ==
    \A c \in Ran : \A n \in PushTargets(Code(c)) :
        IF Pushed(c, n) = {}
        THEN sig[n] = D.sigs[n].d
        ELSE LET i == CHOOSE x \in Pushed(c, n) : \A y \in Pushed(c, n) : y <= x
             IN  sig[n] = Eval(Code(c)[exec[c][i]].e, pre, D.sigs)

\* the pulse ends at an edge at which the automaton only waits
C6_Witness ==
    /\ design = "SerialReceiver"
    /\ 1 \in Ran
    /\ exec[1] = << 1 >>
    /\ pre["new_output"] = 1
    /\ sig["new_output"] = 0

\* the Signals assigned by a statement of context c that no condition and
\* no suspension precedes
AssignedUnconditionally(c) ==
    { Code(c)[k].tgt : k \in { q \in 1 .. Len(Code(c)) :
          \A p \in 1 .. q : Code(c)[p].op = "assign" } }

\* the Signals assigned by any statement of context c
AssignedAnywhere(c) ==
    { Code(c)[k].tgt : k \in { q \in 1 .. Len(Code(c)) : Code(c)[q].op = "assign" } }

\* C7: when two distinct contexts both assign the same Signal
\* unconditionally, the check of the drivers fails with MultipleDriverError,
\* in whichever order the contexts are declared and translated.
C7_TwoUnconditionalDrivers ==
    (result # "pending"
       /\ \E a, b \in Ctxs :
             a # b /\ AssignedUnconditionally(a) \cap AssignedUnconditionally(b) # {})
    => result = "MultipleDriverError"

\* the conflict is found with the sequential context declared first
C7_Witness ==
    /\ design = "DriveTwiceSwapped"
    /\ result = "MultipleDriverError"
    /\ drivers[1] = {"output"}
    /\ drivers[2] = {"output"}

\* C8: when the check of the drivers reports no error, every Signal is
\* assigned in at most one context, conditional assignments and assignments
\* to a part of the Signal included.
C8_AtMostOneDriver ==
    result = "ok" =>
        \A a, b \in Ctxs : a # b => AssignedAnywhere(a) \cap AssignedAnywhere(b) = {}

\* two contexts assigning the Signal under conditions are rejected
C8_Witness ==
    /\ design = "DriveConditional"
    /\ result = "MultipleDriverError"

\* C9: at a clock edge at which the argument of the await the automaton
\* waits in is false, it stays in that state and executes no statement; at
\* the edge at which the argument is true the statements after the await
\* execute, each once, and they execute at no other edge.
C9_WaitUntilTrue ==
    \A c \in Ran :
        /\ (OpAt(c, exec[c][1]) = "await" /\ ~CondBefore(c, exec[c][1])) =>
              /\ exec[c] = << exec[c][1] >>
              /\ st[c] = exec[c][1]
              /\ \A n \in AssignedAnywhere(c) \ PushTargets(Code(c)) : sig[n] = pre[n]
        /\ (OpAt(c, exec[c][1]) = "await" /\ CondBefore(c, exec[c][1])) =>
              /\ Len(exec[c]) >= 2
              /\ exec[c][2] = exec[c][1] + 1
        /\ \A i, k \in 1 .. Len(exec[c]) :
              (i # k /\ exec[c][i] = exec[c][k]) =>
                  /\ {i, k} = {1, Len(exec[c])}
                  /\ IsSuspension(Code(c), exec[c][i])
        /\ \A i \in 1 .. Len(exec[c]) :
              (exec[c][i] > 1 /\ OpAt(c, exec[c][i] - 1) = "await") =>
                  /\ i = 2
                  /\ exec[c][1] = exec[c][i] - 1
                  /\ CondBefore(c, exec[c][1])

C9_Witness ==
    /\ design = "SimpleCoroutine"
    /\ 1 \in Ran
    /\ exec[1] = << 2 >>
    /\ pre["b_valid"] = 0
    /\ pre["b_ready"] = 1
    /\ st[1] = 2

\* C10: a while reached at a clock edge ends the state there: its condition
\* is first evaluated at the next edge, in the state of the while, so the
\* statements before the loop and those after it never execute at the same
\* edge, also when the condition is false on first evaluation.
C10_WhileStartsState ==
    \A c \in Ran :
        /\ \A i \in 2 .. Len(exec[c]) :
              OpAt(c, exec[c][i]) = "while" =>
                  /\ i = Len(exec[c])
                  /\ st[c] = exec[c][i]
        /\ (OpAt(c, exec[c][1]) = "while" /\ ~CondBefore(c, exec[c][1])) =>
              /\ Len(exec[c]) >= 2
              /\ exec[c][2] = Code(c)[exec[c][1]].j
        /\ \A i, k \in 1 .. Len(exec[c]) : \A h \in 1 .. Len(Code(c)) :
              (Code(c)[h].op = "while" /\ i < k /\ exec[c][i] < h)
                 => exec[c][k] <= h

\* the loop is stepped over at an edge of its own
C10_Witness ==
    /\ design = "CounterWhile"
    /\ 1 \in Ran
    /\ exec[1] = << 3, 5, 6 >>
    /\ pre["step"] = 1
    /\ pre["output"] = 0
    /\ sig["output"] = 1

\* the source statements of context c
Src(c) == D.ctxs[c].code

\* the positions visited at the last clock edge of context c
Visited(c) == { exec[c][i] : i \in 1 .. Len(exec[c]) }

\* code with the targets named `from` named `to`
Renamed(code, from, to) ==
    [q \in 1 .. Len(code) |->
        IF code[q].tgt = from THEN [code[q] EXCEPT !.tgt = to] ELSE code[q]]

\* C11: the output of a context that awaits a coroutine holds no call; the
\* output and the state graph of Counter.coroutine_process, which awaits
\* coro_fn(step, output), are those of the process with the body of coro_fn
\* written out in place of the await, and at every clock edge the two
\* automata visit the same statements, reach the same state and assign the
\* same values.
C11_CallIsInlined ==
    /\ \A c \in Ctxs : \A q \in 1 .. Len(output[c]) : output[c][q].op # "call"
    /\ (design = "CounterCoroutine" /\ compiled[1] # "pending") =>
          /\ compiled[1] = "ok"
          /\ output[1] = Renamed(Src(2), "written", "output")
          /\ graph[1] = StateGraph(Src(2))
          /\ graph[1].states = {1, 3, 5, 7}
    /\ (design = "CounterCoroutine" /\ result = "ok") =>
          /\ graph[1] = graph[2]
          /\ st[1] = st[2]
          /\ exec[1] = exec[2]
          /\ (sig["output"] # pre["output"] \/ sig["written"] # pre["written"])
                => sig["output"] = sig["written"]

\* an edge inside the inlined body: from the wait for ~step to the last wait
C11_Witness ==
    /\ design = "CounterCoroutine"
    /\ 1 \in Ran
    /\ exec[1] = << 5, 6, 7 >>
    /\ sig["output"] = 2
    /\ sig["written"] = 2

\* C12: no if statement with a constant condition is left in an output; of
\* ExampleIf.proc_select the output holds the inner if statement of the
\* branch the value of `invert` selects and nothing of the other branch; a
\* branch that is not selected causes no error, even when it holds a push
\* to a Signal without default or, in a concurrent context, an if statement
\* on a Signal.
C12_ConstantIfKeepsOneBranch ==
    /\ \A c \in Ctxs : \A q \in 1 .. Len(output[c]) :
          ~(output[c][q].op = "if" /\ IsConstant(output[c][q].e))
    /\ (design = "ExampleIf" /\ compiled[1] # "pending") =>
          /\ compiled[1] = "ok"
          /\ output[1] = << If(Rd("select_a"), 4), Assign("result", Rd("a")),
                            Else(5), Assign("result", Rd("b")) >>
          /\ 1 \in Ran =>
                sig["result"] = IF pre["select_a"] = 1 THEN pre["a"] ELSE pre["b"]
    /\ (design = "ExampleIfNot" /\ compiled[1] # "pending") =>
          /\ compiled[1] = "ok"
          /\ output[1] = << If(Rd("select_a"), 4), Assign("result", Rd("b")),
                            Else(5), Assign("result", Rd("a")) >>
          /\ 1 \in Ran =>
                sig["result"] = IF pre["select_a"] = 1 THEN pre["b"] ELSE pre["a"]
    /\ (design = "IgnoredBranch" /\ compiled[1] # "pending") =>
          /\ compiled[1] = "ok"
          /\ output[1] = << Assign("r_seq", Rd("a")) >>
          /\ 1 \in Ran => sig["r_seq"] = pre["a"] /\ sig["plain"] = pre["plain"]
    /\ (design = "IgnoredBranch" /\ compiled[2] # "pending") =>
          /\ compiled[2] = "ok"
          /\ output[2] = << Assign("r_con", Inv("a")) >>

\* both contexts with an ignored branch are translated and run
C12_Witness ==
    /\ design = "IgnoredBranch"
    /\ compiled[2] = "ok"
    /\ 1 \in Ran
    /\ pre["a"] = 1
    /\ sig["r_seq"] = 1

\* the contexts whose only statement to resolve is a for loop that is
\* simply unrolled, with the position of the loop
SimpleFor ==
    { x \in Ctxs \X (1 .. 8) :
        /\ x[2] <= Len(Src(x[1]))
        /\ Src(x[1])[x[2]].op = "for"
        /\ ~IsIfBreak(Src(x[1]), x[2])
        /\ \A q \in 1 .. Len(Src(x[1])) : IsResolved(Src(x[1])[q]) => q = x[2] }

\* C13: an output holds no for loop; a for loop over N elements with a body
\* of m statements leaves N * m statements, the r-th statement of the k-th
\* copy being the r-th statement of the body with the loop variables bound
\* to the k-th element; for N = 0 nothing is left of the loop.
C13_ForIsUnrolled ==
    /\ \A c \in Ctxs : \A q \in 1 .. Len(output[c]) :
          output[c][q].op \notin {"for", "endfor", "forelse"}
    /\ \A x \in SimpleFor : compiled[x[1]] = "ok" =>
          LET c == x[1]
              p == x[2]
              N == Len(Src(c)[p].e)
              m == Src(c)[p].j - 2 - p
          IN  /\ Len(output[c]) = Len(Src(c)) - (m + 2) + N * m
              /\ \A q \in 1 .. (p - 1) : output[c][q] = Src(c)[q]
              /\ \A k \in 1 .. N : \A r \in 1 .. m :
                    output[c][p + (k - 1) * m + r - 1] = Subst(Src(c)[p + r], Src(c)[p].e[k])
    /\ (design = "ExampleZip" /\ compiled[1] # "pending") =>
          /\ compiled[1] = "ok"
          /\ output[1] = << AssignBit("result", 0, Rd("a")),
                            AssignBit("result", 1, Rd("b")),
                            AssignBit("result", 2, Rd("c")) >>
          /\ result = "ok" => sig["result"] = sig["a"] + 2 * sig["b"] + 4 * sig["c"]
    /\ (design = "ForEmpty" /\ compiled[1] # "pending") =>
          /\ compiled[1] = "ok"
          /\ output[1] = << Assign("first", Rd("a")), Assign("last", Inv("a")) >>

\* the three copies drive the three bits of the result
C13_Witness ==
    /\ design = "ExampleZip"
    /\ result = "ok"
    /\ Len(output[1]) = 3
    /\ sig["a"] = 1 /\ sig["b"] = 0 /\ sig["c"] = 1
    /\ sig["result"] = 5
    /\ pre["result"] = 2

\* bit i of value v
BitOf(v, i) == (v \div Pow2(i)) % 2

\* the first bit of v that is set, none: NoValue
FirstSet(v) ==
    IF v = 0 THEN NoValue ELSE CHOOSE i \in 0 .. 2 :
        BitOf(v, i) = 1 /\ \A l \in 0 .. (i - 1) : BitOf(v, l) = 0

\* C14: the for loop of ExampleFor.example_for, its body a single if that
\* ends in a break, becomes a chain of if-else statements: at every clock
\* edge only the body of the first iteration whose condition input[i] is
\* true executes; the else clause of the loop executes when no condition is
\* true and at no other edge; without else clause nothing executes then.
C14_ForBreakIsFirstTrue ==
    /\ (design \in {"ExampleForBreak", "ExampleForBreakNoElse"}
          /\ compiled[1] # "pending") =>
          /\ compiled[1] = "ok"
          /\ \A k \in 0 .. 2 :
                /\ output[1][2 + 3 * k] = If(Bit("input", k), 5 + 3 * k)
                /\ output[1][3 + 3 * k] = AssignBit("output", k, Const(1))
                /\ output[1][4 + 3 * k].op = "else"
                /\ output[1][4 + 3 * k].j = End(output[1])
    /\ (design \in {"ExampleForBreak", "ExampleForBreakNoElse"} /\ 1 \in Ran) =>
          /\ \A k \in 0 .. 2 :
                (3 + 3 * k) \in Visited(1) <=> FirstSet(pre["input"]) = k
          /\ pre["input"] # 0 => sig["output"] = Pow2(FirstSet(pre["input"]))
    /\ (design = "ExampleForBreak" /\ compiled[1] = "ok") =>
          /\ Len(output[1]) = 11
          /\ output[1][11] = Assign("output", Const(7))
    /\ (design = "ExampleForBreak" /\ 1 \in Ran) =>
          /\ 11 \in Visited(1) <=> pre["input"] = 0
          /\ pre["input"] = 0 => sig["output"] = 7
    /\ (design = "ExampleForBreakNoElse" /\ 1 \in Ran) =>
          /\ Len(output[1]) = 10
          /\ pre["input"] = 0 => sig["output"] = 0

\* two conditions are true, the body of the first of them executes
C14_Witness ==
    /\ design = "ExampleForBreak"
    /\ 1 \in Ran
    /\ pre["input"] = 6
    /\ exec[1] = << 1, 2, 5, 6, 7, 12 >>
    /\ sig["output"] = 2

\* C15: the Signals recorded as driven by a translated concurrent context
\* are exactly the targets of the assignments of its output, its output
\* holds nothing but assignments, and no Variable is assigned or read in
\* it; a concurrent context that uses a Variable is not translated.
C15_ConcurrentDrivers ==
    /\ \A c \in Ctxs :
          (D.ctxs[c].kind = "concurrent" /\ compiled[c] = "ok") =>
              /\ drivers[c] = { output[c][q].tgt : q \in 1 .. Len(output[c]) }
              /\ \A q \in 1 .. Len(output[c]) :
                    /\ output[c][q].op = "assign"
                    /\ D.sigs[output[c][q].tgt].dir # "var"
                    /\ output[c][q].e.n \in DOMAIN D.sigs
                          => D.sigs[output[c][q].e.n].dir # "var"
    /\ \A c \in Ctxs :
          (design = "VariableInConcurrent" /\ compiled[c] # "pending") =>
              /\ compiled[c] # "ok"
              /\ drivers[c] = {}
              /\ output[c] = << >>

\* the target of the loop that is unrolled to nothing is not driven
C15_Witness ==
    /\ design = "ForEmpty"
    /\ compiled[1] = "ok"
    /\ drivers[1] = {"first", "last"}
    /\ result = "ok"
    /\ sig["first"] = 1
    /\ sig["last"] = 0

\* the assignments of context c executed at its last clock edge after which
\* the same context assigned the same target again at that edge
Overwritten(c) ==
    { i \in 1 .. Len(exec[c]) :
        /\ OpAt(c, exec[c][i]) = "assign"
        /\ \E k \in (i + 1) .. Len(exec[c]) :
              /\ OpAt(c, exec[c][k]) = "assign"
              /\ Code(c)[exec[c][k]].tgt = Code(c)[exec[c][i]].tgt }

\* C16: a Signal assigned at a clock edge holds, after the edge, the value
\* of the assigned expression over the values before the edge, whatever
\* was assigned to the Signals the expression reads earlier at that edge;
\* in SignalAndVariable the read of s after `s <<= a` yields the s of before
\* the edge, the read of v after `v @= a` yields the a just assigned.
C16_SignalDeferredVariableImmediate ==
    /\ \A c \in Ran : \A i \in 1 .. Len(exec[c]) :
          LET x == IF exec[c][i] = End(Code(c)) THEN Await(Const(0))
                   ELSE Code(c)[exec[c][i]]
          IN  (/\ x.op = "assign" /\ x.mode = "NEXT" /\ x.part = "all"
               /\ i \notin Overwritten(c)
               /\ x.e.n \in DOMAIN D.sigs => D.sigs[x.e.n].dir \notin {"var", "tmp"})
              => sig[x.tgt] = Eval(x.e, pre, D.sigs) % Pow2(D.sigs[x.tgt].w)
    /\ (design = "SignalAndVariable" /\ 1 \in Ran) =>
          /\ sig["s"] = pre["a"]
          /\ sig["v"] = pre["a"]
          /\ sig["from_s"] = pre["s"]
          /\ sig["from_v"] = pre["a"]

\* a changes: the Variable's reader sees the new value, the Signal's the old
C16_Witness ==
    /\ design = "SignalAndVariable"
    /\ 1 \in Ran
    /\ pre["a"] = 1 /\ pre["s"] = 0 /\ pre["v"] = 0
    /\ sig["from_s"] = 0
    /\ sig["from_v"] = 1

\* the assignment modes context c applies to Signal n in its output
ModesOf(c, n) ==
    { output[c][q].mode : q \in { x \in 1 .. Len(output[c]) :
          output[c][x].op = "assign" /\ output[c][x].tgt = n } }

\* C17: a context that applies both the push and the next assignment to one
\* Signal is rejected with InvalidAssignmentModeError, with the push first
\* or the next first in the same sequence, in two branches of an if and in
\* two states; no translated context applies both to one Signal.
C17_PushAndNextExclusive ==
    /\ \A c \in Ctxs :
          (design = "PushAndNextAssigned" /\ compiled[c] # "pending") =>
              /\ compiled[c] = "InvalidAssignmentModeError"
              /\ output[c] = << >>
              /\ graph[c] = NoGraph
              /\ exec[c] = << >>
    /\ \A c \in Ctxs : \A n \in DOMAIN D.sigs :
          ~({"PUSH", "NEXT"} \subseteq ModesOf(c, n))

\* all four contexts are rejected, the one with the next assignment first too
C17_Witness ==
    /\ design = "PushAndNextAssigned"
    /\ \A c \in Ctxs : compiled[c] = "InvalidAssignmentModeError"
    /\ result = "ok"
    /\ sig["p2"] = 0
    /\ sig["x"] = 1 /\ pre["x"] = 1

\* C18: a context with a push assignment to a Signal without default value
\* is rejected with InvalidAssignmentModeError; the Signal is given no reset
\* to a default: no clock edge changes it; every Signal a translated context
\* pushes to has a default value.
C18_PushNeedsDefault ==
    /\ (design = "PushNoDefault" /\ compiled[1] # "pending") =>
          /\ compiled[1] = "InvalidAssignmentModeError"
          /\ output[1] = << >>
          /\ drivers[1] = {}
    /\ design = "PushNoDefault" =>
          /\ sig["s"] = pre["s"]
          /\ sig["s"] \in Range(1)
    /\ \A c \in Ctxs : \A n \in DOMAIN D.sigs :
          "PUSH" \in ModesOf(c, n) => D.sigs[n].d # NoValue

\* the clock runs, the condition the push waited for held, s is as it was
C18_Witness ==
    /\ design = "PushNoDefault"
    /\ compiled[1] = "InvalidAssignmentModeError"
    /\ 2 \in Ran
    /\ pre["x"] = 1
    /\ sig["seen"] = 1
    /\ sig["s"] = 1

\* C19: a context that assigns to an input port, by next assignment in a
\* sequential or a concurrent context or by push assignment, is rejected
\* with InvalidAssignmentModeError; no context is recorded as driving an
\* input port.
C19_InputPortsNotWritten ==
    /\ \A c \in Ctxs :
          (design = "WriteInput" /\ compiled[c] # "pending") =>
              /\ compiled[c] = "InvalidAssignmentModeError"
              /\ output[c] = << >>
    /\ \A c \in Ctxs : drivers[c] \cap Inputs(D.sigs) = {}
    /\ \A c \in Ctxs : \A q \in 1 .. Len(output[c]) :
          output[c][q].op = "assign" => D.sigs[output[c][q].tgt].dir # "in"

\* the three contexts are rejected; r, assigned before the input, is not driven
C19_Witness ==
    /\ design = "WriteInput"
    /\ \A c \in Ctxs : compiled[c] = "InvalidAssignmentModeError"
    /\ result = "ok"
    /\ pre["x"] = 1
    /\ sig["r"] = 0

\* C20: an if statement whose condition is a Signal is rejected with
\* UnsupportedConstructError in a concurrent context; in a sequential
\* context the same statement is kept with both branches, and the branch
\* the condition selects executes.
C20_RuntimeIfOnlySequential ==
    /\ (design = "RuntimeIf" /\ compiled[1] # "pending") =>
          /\ compiled[1] = "UnsupportedConstructError"
          /\ output[1] = << >>
          /\ drivers[1] = {}
    /\ (design = "RuntimeIf" /\ compiled[2] # "pending") =>
          /\ compiled[2] = "ok"
          /\ output[2] = Src(2)
          /\ Src(1) = Renamed(Src(2), "r_seq", "r_con")
    /\ (design = "RuntimeIf" /\ 2 \in Ran) =>
          /\ sig["r_seq"] = IF pre["select_a"] = 1 THEN pre["a"] ELSE pre["b"]
          /\ exec[2] = IF pre["select_a"] = 1 THEN << 1, 2, 3, 5 >> ELSE << 1, 4, 5 >>
    /\ design = "RuntimeIf" => sig["r_con"] = 0
    /\ \A c \in Ctxs : \A q \in 1 .. Len(output[c]) :
          output[c][q].op = "if" => D.ctxs[c].kind = "sequential"

\* the else branch of the sequential context executes
C20_Witness ==
    /\ design = "RuntimeIf"
    /\ compiled[1] = "UnsupportedConstructError"
    /\ 2 \in Ran
    /\ pre["select_a"] = 0 /\ pre["a"] = 0 /\ pre["b"] = 1
    /\ sig["r_seq"] = 1

\* the statements `code` suspend: they hold an await expression or a while
\* loop, or await a coroutine whose body does
RECURSIVE Suspends(_)
Suspends(code) ==
    \E p \in 1 .. Len(code) :
        \/ code[p].op \in {"await", "while"}
        \/ code[p].op = "call" /\ Suspends(Coroutine(code[p].tgt))

\* C21: a concurrent context that holds an await expression or a while
\* loop, written in it or reached through an awaited coroutine, fails with
\* InvalidSuspensionContextError; no concurrent context ever has a state
\* graph, a current state or statements that introduce states.
C21_NoSuspensionInConcurrent ==
    \A c \in Ctxs : D.ctxs[c].kind = "concurrent" =>
        /\ graph[c] = NoGraph /\ st[c] = NoValue /\ exec[c] = << >>
        /\ \A q \in 1 .. Len(output[c]) : output[c][q].op \notin {"await", "while"}
        /\ (compiled[c] # "pending" /\ Suspends(Src(c))) =>
              /\ compiled[c] = "InvalidSuspensionContextError"
              /\ output[c] = << >>
              /\ drivers[c] = {}
        /\ (compiled[c] = "InvalidSuspensionContextError") => Suspends(Src(c))

\* the await, the while and the awaited coroutine are all rejected, the plain
\* concurrent context next to them drives its Signal
C21_Witness ==
    /\ design = "SuspendingConcurrent"
    /\ \A c \in 1 .. 3 : compiled[c] = "InvalidSuspensionContextError"
    /\ Src(3)[1].op = "call"
    /\ compiled[4] = "ok" /\ result = "ok"
    /\ pre["step"] = 0 /\ sig["step"] = 1 /\ sig["d"] = 1

\* the names the statements of a function define with =
Definitions(code) ==
    { p \in 1 .. Len(code) : code[p].op = "bind" }

\* C22: a function that defines a name a second time fails with
\* RedefinitionError and emits nothing; a function that defines every name
\* once is translated, each name standing for the object it refers to; a
\* loop variable named by several for loops and generator expressions of one
\* function, bound to a new element in every iteration, is no redefinition.
C22_NamesDefinedOnce ==
    /\ \A c \in Ctxs : compiled[c] # "pending" =>
          /\ (\E p, q \in Definitions(Src(c)) : p # q /\ Src(c)[p].tgt = Src(c)[q].tgt)
                <=> compiled[c] = "RedefinitionError"
          /\ compiled[c] = "RedefinitionError" => output[c] = << >> /\ drivers[c] = {}
          /\ \A q \in 1 .. Len(output[c]) : output[c][q].op \notin {"bind", "for"}
    /\ (design = "References" /\ compiled[1] # "pending") =>
          /\ compiled[1] = "ok"
          /\ output[1] = << Assign("r1", Rd("a")) >>
    /\ (design = "References" /\ compiled[3] # "pending") =>
          /\ compiled[3] = "ok"
          /\ output[3] = << AssignBit("r3", 0, Bit("inp", 0)),
                            AssignBit("r3", 1, Bit("inp", 1)),
                            AssignBit("r4", 0, Bit("inp", 1)),
                            AssignBit("r4", 1, Bit("inp", 0)) >>
    /\ (design = "References" /\ result = "ok") =>
          /\ sig["r1"] = sig["a"]
          /\ sig["r2"] = 0
          /\ sig["r3"] = sig["inp"]
          /\ sig["r4"] = (sig["inp"] % 2) * 2 + (sig["inp"] \div 2)

\* the function defining x twice is rejected, the loops sharing the names of
\* their variables drive their outputs
C22_Witness ==
    /\ design = "References"
    /\ compiled = << "ok", "RedefinitionError", "ok" >>
    /\ result = "ok"
    /\ sig["inp"] = 1 /\ sig["r3"] = 1 /\ sig["r4"] = 2
    /\ sig["a"] = 1 /\ sig["r1"] = 1

\* the contexts of design d the compiler rejects
Failing(d) ==
    { c \in DOMAIN d.ctxs : Translation(d.ctxs[c], d.sigs).status # "ok" }

\* design d without the contexts in F
Without(d, F) ==
    LET keep(c) == \A f \in F : d.ctxs[f] # c
    IN  [d EXCEPT !.ctxs = SelectSeq(d.ctxs, keep)]

\* the outputs of the contexts compiled without error, in the order of the
\* contexts
RECURSIVE OutputsFrom(_)
OutputsFrom(c) ==
    IF c > Len(D.ctxs) THEN << >>
    ELSE (IF compiled[c] = "ok" THEN << [out |-> output[c], graph |-> graph[c]] >>
          ELSE << >>) \o OutputsFrom(c + 1)

\* C23: a context whose compilation raised an error has no output: no
\* statement, no state graph, no driver, and it never executes; the error
\* does not stop the compiler, and the outputs and state graphs of the
\* other contexts, and the outcome of the check of the drivers, are those of
\* the design without the failing contexts.
C23_ErrorsAreFatalPerContext ==
    /\ \A c \in Ctxs : compiled[c] \notin {"pending", "ok"} =>
          /\ output[c] = << >> /\ graph[c] = NoGraph /\ drivers[c] = {}
          /\ st[c] = NoValue /\ exec[c] = << >>
    /\ result # "pending" =>
          LET rest == Without(D, Failing(D))
              alone == [c \in DOMAIN rest.ctxs |-> Translation(rest.ctxs[c], rest.sigs)]
          IN  /\ \A c \in Ctxs : compiled[c] # "pending"
              /\ Failing(D) = { c \in Ctxs : compiled[c] # "ok" }
              /\ OutputsFrom(1) = [c \in DOMAIN alone |->
                                     [out |-> alone[c].output, graph |-> alone[c].graph]]
              /\ (result = "MultipleDriverError")
                    <=> MultipleDrivers([c \in DOMAIN alone |-> alone[c].drivers]) # {}

\* the rejected context emitted nothing while the two contexts next to it,
\* one of them driving the Signal the rejected context assigns, run
C23_Witness ==
    /\ design = "FailingContext"
    /\ compiled = << "UnboundedDuplicationError", "ok", "ok" >>
    /\ output[1] = << >> /\ Len(output[2]) = 2
    /\ result = "ok"
    /\ exec[2] = << 1, 2, 3 >> /\ pre["shared"] = 0 /\ sig["shared"] = 1
    /\ sig["other"] = sig["step"]

C26_ResetWrapsBody ==
    [][ result = "ok" =>
          \A c \in Ctxs : (Runs(c) /\ D.ctxs[c].reset # "") =>
              IF sig[D.ctxs[c].reset] = 1
              THEN /\ exec'[c] = << >>
                   /\ \A n \in drivers[c] :
                         sig'[n] = IF D.sigs[n].d # NoValue THEN D.sigs[n].d ELSE sig[n]
              ELSE /\ exec'[c] = Step(Code(c), D.sigs, sig, st[c]).exec
                   /\ exec'[c] # << >>
                   /\ design = "CounterReset" =>
                         /\ exec'[c] = << 1, 2, 3, 4 >>
                         /\ sig'["output"] = (sig["output"] + 1) % Pow2(DataWidth)
                         /\ sig'["toggle"] = 1 - sig["toggle"]
                         /\ sig'["counted"] = 1 ]_vars

\* the Counter, having counted to two, is reset; its toggle keeps its value
C26_Witness ==
    /\ design = "CounterReset"
    /\ result = "ok"
    /\ pre["reset"] = 1 /\ pre["output"] = 2 /\ pre["toggle"] = 1 /\ pre["counted"] = 1
    /\ sig["output"] = 0 /\ sig["toggle"] = 1 /\ sig["counted"] = 0
    /\ exec[1] = << >>

\* C27: at the clock edge at which a continue statement is reached with the
\* runtime variable condition of its loop false, the statements after the
\* loop execute at that same edge, up to their next transition; no statement
\* of the loop executes after the continue and the automaton does not move
\* to the state of the loop head to test the condition again.
C27_ContinueExitsLoop ==
    /\ \A c \in Ran : \A i \in 1 .. Len(exec[c]) :
          LET k == exec[c][i]
              h == IF OpAt(c, k) = "continue" THEN Code(c)[k].j ELSE 1
          IN  ( /\ OpAt(c, k) = "continue"
                /\ ~IsConstant(Code(c)[h].e)
                /\ ~CondBefore(c, h) ) =>
                  /\ i < Len(exec[c])
                  /\ exec[c][i + 1] = Code(c)[h].j
                  /\ \A m \in (i + 1) .. Len(exec[c]) :
                        exec[c][m] \notin h .. (Code(c)[h].j - 1)
                  /\ st[c] # h
    /\ (design = "ExampleContinue" /\ 1 \in Ran /\ exec[1][1] = 6
          /\ pre["step"] = 1 /\ pre["continue_loop"] = 1 /\ pre["cnt"] = 0) =>
              /\ exec[1] = << 6, 7, 8, 10, 11 >>
              /\ st[1] = 1
              /\ sig["output"] = 0
              /\ sig["cnt"] = 0

\* the last iteration of ExampleContinue ends in the continue statement
C27_Witness ==
    /\ design = "ExampleContinue"
    /\ 1 \in Ran
    /\ pre["cnt"] = 0 /\ pre["continue_loop"] = 1
    /\ exec[1] = << 6, 7, 8, 10, 11 >>
    /\ sig["output"] = 0

\* the state context c was in at the last clock edge
Resumed(c) == IF IsSuspension(Code(c), exec[c][1]) THEN exec[c][1] ELSE 0

\* the statements of exec[c] that belong to the state: all but the resumed
\* await or while itself
Body(c) == IF Resumed(c) = 0 THEN 1 .. Len(exec[c]) ELSE 2 .. Len(exec[c])

\* C28: at every clock edge a context executes statements of one state only,
\* the state it was in; the edge ends at the first transition it reaches, so
\* one next state takes effect, and it is a successor of that state in the
\* state graph.  In TwoGuards, with the guards a and b both true, the
\* transition declared first, to the await guarded by a, is taken.
C28_OneStateOneTransition ==
    /\ \A c \in Ran :
          /\ Resumed(c) \in graph[c].states
          /\ \A i \in Body(c) :
                /\ exec[c][i] \in Region(Code(c), Entry(Code(c), Resumed(c)))
                /\ i < Len(exec[c]) => ~IsTransition(Code(c), exec[c][i])
          /\ Body(c) # {} =>
                /\ IsTransition(Code(c), Last(c))
                /\ st[c] = TransitionTarget(Code(c), Last(c))
          /\ Body(c) = {} => st[c] = Resumed(c)
          /\ << Resumed(c), st[c] >> \in graph[c].trans
    /\ (design = "TwoGuards" /\ 1 \in Ran /\ exec[1][1] = 1 /\ pre["start"] = 1) =>
          /\ pre["a"] = 1 => exec[1] = << 1, 2, 3 >> /\ st[1] = 3
          /\ (pre["a"] = 0 /\ pre["b"] = 1) => exec[1] = << 1, 2, 5, 6 >> /\ st[1] = 6
          /\ (pre["a"] = 0 /\ pre["b"] = 0) =>
                exec[1] = << 1, 2, 5, 8, 9 >> /\ st[1] = 1 /\ sig["output"] = 3

\* both guards are true and the first transition is taken
C28_Witness ==
    /\ design = "TwoGuards"
    /\ 1 \in Ran
    /\ pre["start"] = 1 /\ pre["a"] = 1 /\ pre["b"] = 1
    /\ exec[1] = << 1, 2, 3 >>
    /\ st[1] = 3 /\ sig["output"] = 0
    /\ {<< 1, 3 >>, << 1, 6 >>, << 1, 1 >>} \subseteq graph[1].trans

\* C29: in the output of every context translated without error no statement
\* can be reached from itself without a transition: the back edge of a
\* while, the loop head duplicated at a continue and the restart at the end
\* of the coroutine all cross a state boundary.  So no clock edge is cut
\* off, an edge visits no more positions than the context has, and no
\* statement executes twice at one edge.
C29_CyclesCrossStates ==
    /\ \A c \in Ctxs : (compiled[c] = "ok" /\ D.ctxs[c].kind = "sequential") =>
          \A p \in 1 .. Len(output[c]) :
              p \notin Region(output[c], Flow(output[c], p))
    /\ ~cut
    /\ \A c \in Ran :
          /\ Len(exec[c]) <= Len(Code(c)) + 2
          /\ \A i, j \in Body(c) : i # j => exec[c][i] # exec[c][j]

\* UsingContinue: the edge that takes the continue statement runs the start
\* of the loop once and stops at the await
C29_Witness ==
    /\ design = "UsingContinue"
    /\ 1 \in Ran
    /\ exec[1] = << 3, 4, 5, 6, 2, 3 >>
    /\ OpAt(1, 6) = "continue"
    /\ st[1] = 3
    /\ ~cut

\* the number of state s of context c
NumberOf(c, s) == CHOOSE i \in 1 .. Len(graph[c].numbers) : graph[c].numbers[i] = s

\* C30: the state graph of a sequential context has one initial state, the
\* state the context starts in; every state has exactly one number; the
\* initial state has the lowest number, and every other state has a
\* transition from a state with a lower number, so every state is reachable
\* from the initial state along transitions; the context is never in a
\* state without a number.  SimpleCoroutine starts in the state of the
\* statements before its await, ExampleContinue in the state of its first
\* await.
C30_StatesNumberedFromInitial ==
    \A c \in Ctxs : (compiled[c] = "ok" /\ D.ctxs[c].kind = "sequential") =>
        LET g == graph[c]
            N == g.numbers
        IN  /\ g.init \in g.states
            /\ g.init = InitState(output[c])
            /\ Len(N) = Cardinality(g.states)
            /\ g.states = { N[i] : i \in 1 .. Len(N) }
            /\ N[1] = g.init
            /\ \A i \in 2 .. Len(N) : \E j \in 1 .. (i - 1) : << N[j], N[i] >> \in g.trans
            /\ st[c] \in g.states
            /\ exec[c] = << >> /\ result = "pending" => st[c] = g.init
            /\ NumberOf(c, g.init) <= NumberOf(c, st[c])
            /\ design = "SimpleCoroutine" => g.init = 0 /\ N = << 0, 2 >>
            /\ design = "ExampleContinue" => g.init = 1 /\ N = << 1, 3, 6 >>
            /\ design = "TwoGuards" => g.init = 1 /\ N = << 1, 3, 6 >>

\* ExampleContinue is in the state discovered last, the await inside its loop
C30_Witness ==
    /\ design = "ExampleContinue"
    /\ graph[1].init = 1
    /\ graph[1].numbers = << 1, 3, 6 >>
    /\ 1 \in Ran /\ st[1] = 6
    /\ NumberOf(1, 6) = 3

\* the state of the context of while loops that stands for a state of the
\* context of await expressions in AwaitAsWhile
AsWhile(s) == CASE s = 0 -> 0 [] s = 2 -> 2 [] s = 4 -> 5 [] OTHER -> s

\* C31: `await step` and `while ~step: pass` are translated into the same
\* automaton: the states and transitions of the two contexts of
\* AwaitAsWhile correspond one to one, and for every sequence of inputs the
\* two are in corresponding states and drive the same values at every
\* clock edge.
C31_AwaitIsEmptyWhile ==
    (design = "AwaitAsWhile" /\ compiled[1] = "ok" /\ compiled[2] = "ok") =>
        /\ graph[2].init = AsWhile(graph[1].init)
        /\ graph[2].states = { AsWhile(s) : s \in graph[1].states }
        /\ graph[2].trans = { << AsWhile(t[1]), AsWhile(t[2]) >> : t \in graph[1].trans }
        /\ graph[2].numbers = [i \in 1 .. Len(graph[1].numbers) |->
                                  AsWhile(graph[1].numbers[i])]
        /\ Cardinality(graph[2].states) = Cardinality(graph[1].states)
        /\ st[2] = AsWhile(st[1])
        /\ sig["looped"] = sig["awaited"]
        /\ (1 \in Ran) <=> (2 \in Ran)
        /\ 1 \in Ran =>
              /\ (Len(exec[1]) = 1) <=>
                    (Len(exec[2]) = 2 /\ OpAt(2, exec[2][2]) = "endwhile")
              /\ exec[2][1] = IF exec[1][1] = 1 THEN 1 ELSE AsWhile(exec[1][1])
              /\ Len(exec[1]) = 1 => pre["step"] = 0

\* both contexts wait a second cycle in their second wait state
C31_Witness ==
    /\ design = "AwaitAsWhile"
    /\ 1 \in Ran /\ 2 \in Ran
    /\ pre["step"] = 0 /\ pre["awaited"] = 1
    /\ exec[1] = << 4 >> /\ exec[2] = << 5, 6 >>
    /\ st[1] = 4 /\ st[2] = 5
    /\ sig["awaited"] = 1 /\ sig["looped"] = 1

\* C32: no clock edge goes past the end of a coroutine: the end is the last
\* position an edge visits, the automaton is then in its initial state, and
\* the next edge starts with the first statement again.  Every state has a
\* transition and every edge executes the state the automaton is in: it
\* never halts.
C32_RestartAfterOneCycle ==
    [][ result = "ok" =>
          \A c \in Ctxs : (Runs(c) /\ D.ctxs[c].reset = "") =>
              /\ exec'[c] # << >>
              /\ \A i \in 1 .. (Len(exec'[c]) - 1) : exec'[c][i] # End(Code(c))
              /\ exec'[c][Len(exec'[c])] = End(Code(c)) => st'[c] = graph[c].init
              /\ (exec[c] # << >> /\ Last(c) = End(Code(c))) =>
                    /\ st[c] = graph[c].init
                    /\ exec'[c][1] = 1
              /\ \A s \in graph[c].states : \E t \in graph[c].states :
                    << s, t >> \in graph[c].trans
              /\ st'[c] \in graph[c].states ]_vars

\* CoroutineExample has reached its end and is back in its initial state
C32_Witness ==
    /\ design = "CoroutineExample"
    /\ 1 \in Ran
    /\ exec[1] = << 1, 2, 3, 4 >>
    /\ Last(1) = End(Code(1))
    /\ st[1] = 1 /\ graph[1].init = 1
    /\ sig["data_out"] = pre["data_in"]


\* the additions in code
Additions(code) ==
    { q \in 1 .. Len(code) : code[q].op = "assign" /\ code[q].e.k = "add" }

\* k arguments
Arguments(k) == [i \in 1 .. k |-> "inp_a"]

\* C33: inlining a recursive function whose recursion depth is fixed by
\* compile-time values terminates: add_all on k arguments inlines exactly k
\* calls and produces k-1 additions, and the result is the sum of the
\* arguments; a recursion whose depth cannot be resolved fails the context
\* with UnboundedRecursionError after finitely many calls, and nothing is
\* emitted for it
C33_RecursionInlined ==
    /\ \A k \in 1 .. MaxDepth :
          LET r == Returned("add_all", Arguments(k), 1)
          IN  /\ r.status = "ok"
              /\ r.calls = k
              /\ Cardinality(Additions(r.code)) = k - 1
              /\ Len(r.code) = k - 1
    /\ (design = "ExampleFn" /\ compiled[1] # "pending") =>
          /\ compiled[1] = "ok"
          /\ Unbounded(output[1]) = {}
          /\ Cardinality(Additions(output[1])) = 2 * (3 - 1)
          /\ Len(output[1]) = 2 * 3
    /\ (design = "ExampleFn" /\ result = "ok") =>
          /\ sig["sum_1"] = (sig["inp_a"] + sig["inp_b"] + sig["inp_c"]) % Pow2(1)
          /\ sig["sum_2"] = sig["sum_1"]
    /\ (design = "AddForever" /\ compiled[1] # "pending") =>
          /\ compiled[1] = "UnboundedRecursionError"
          /\ output[1] = << >>
          /\ Returned("add_forever", << "inp_a" >>, 1).calls = MaxDepth
    /\ (design = "AddForever" /\ compiled[2] # "pending") => compiled[2] = "ok"

\* the three inputs are added by the inlined calls, the sum wraps around
C33_Witness ==
    /\ design = "ExampleFn"
    /\ result = "ok"
    /\ sig["inp_a"] = 1 /\ sig["inp_b"] = 1 /\ sig["inp_c"] = 1
    /\ sig["sum_1"] = 1
    /\ Len(output[1]) = 6


RuntimeAssertions(code) ==
    { q \in 1 .. Len(code) : code[q].op = "assert" /\ ~IsConstant(code[q].e) }

\* C35: an assertion with a constant condition is evaluated by the compiler
\* and never appears in the output: a false one fails the context with
\* CompileTimeAssertionError, a true one emits nothing; so does static_assert.
\* An assertion with a runtime variable condition is lowered into the output
\* whatever value its condition has, and executes with the statements around it
C35_AssertionsCheckedAtCompileTime ==
    /\ \A c \in Ctxs : \A q \in 1 .. Len(output[c]) :
          /\ output[c][q].op # "static_assert"
          /\ output[c][q].op = "assert" => ~IsConstant(output[c][q].e)
    /\ (design = "ExampleAssert" /\ compiled[1] # "pending") =>
          /\ compiled[1] = "ok"
          /\ output[1] = << Assertion(Ne("input", 2)) >>
    /\ (design = "ExampleAssert" /\ 1 \in Ran) => exec[1] = << 1, 2 >>
    /\ design = "FailingAssert" =>
          /\ compiled[1] \in {"pending", "CompileTimeAssertionError"}
          /\ compiled[2] \in {"pending", "CompileTimeAssertionError"}
          /\ compiled[3] \in {"pending", "ok"}
          /\ output[1] = << >> /\ output[2] = << >>
          /\ compiled[3] = "ok" => output[3] = D.ctxs[3].code
          /\ 3 \in Ran => /\ exec[3] = << 1, 2, 3 >>
                          /\ sig["c"] = pre["input"]
    /\ \A c \in Ctxs :
          (design \in {"ExampleAssert", "FailingAssert"} /\ compiled[c] = "ok") =>
             Cardinality(RuntimeAssertions(output[c]))
                = Cardinality(RuntimeAssertions(D.ctxs[c].code))

\* the runtime assertion of ExampleAssert is executed at an edge at which its
\* condition does not hold
C35_Witness ==
    /\ design = "ExampleAssert"
    /\ 1 \in Ran
    /\ OpAt(1, exec[1][1]) = "assert"
    /\ pre["input"] = 2
    /\ Len(output[1]) = 1


\* C36: using_continue processes one transaction per clock cycle: once the
\* automaton is in the wait state, at every clock edge at which c_valid is
\* true c_processed_data is updated from c_data and the automaton is in the
\* wait state again, with c_ready true for the next edge; at an edge at which
\* c_valid is false it waits and changes nothing
C36_OneTransactionPerCycle ==
    [][ (design = "UsingContinue" /\ result = "ok" /\ st[1] = 3) =>
           /\ st'[1] = 3
           /\ sig'["c_ready"] = 1
           /\ sig["c_valid"] = 1 =>
                 /\ sig'["c_processed_data"] = sig["c_data"]
                 /\ exec'[1] = << 3, 4, 5, 6, 2, 3 >>
           /\ sig["c_valid"] = 0 =>
                 /\ sig'["c_processed_data"] = sig["c_processed_data"]
                 /\ exec'[1] = << 3 >> ]_vars

\* a second transaction in a row: the edge before took data, this edge takes
\* different data
C36_Witness ==
    /\ design = "UsingContinue"
    /\ 1 \in Ran
    /\ exec[1] = << 3, 4, 5, 6, 2, 3 >>
    /\ st[1] = 3
    /\ pre["c_valid"] = 1 /\ pre["c_ready"] = 1
    /\ pre["c_processed_data"] # pre["c_data"]
    /\ sig["c_processed_data"] = pre["c_data"]
    /\ sig["c_ready"] = 1
    /\ sig["c_valid"] = 1


\* context c ran to the end of its coroutine at the last clock edge
Finished(c) == c \in Ran /\ Last(c) = End(Code(c))

\* the await of send was reached cycles clock edges ago and send has not
\* returned: cnt is 8 after the edge that reaches the await and every edge
\* in the loop decrements it
InSend(cycles) ==
    /\ design = "TransmitterExample"
    /\ result = "ok"
    /\ st[1] = 3
    /\ sig["cnt"] = 8 - cycles

\* the clock edges of send: the edge that reaches the await enters the loop
\* with cnt 8, an edge in the loop with cnt not 0 executes one iteration
EdgesOfSend ==
    [][ (design = "TransmitterExample" /\ result = "ok" /\ sig["reset"] = 0) =>
           /\ st[1] = 0 => /\ exec'[1] = << 1, 2, 3 >>
                           /\ InSend(0)'
           /\ \A n \in 0 .. 7 :
                 InSend(n) => /\ exec'[1] = << 3, 4, 5, 6, 7 >>
                              /\ InSend(n + 1)' ]_vars

\* C37: send returns to its awaiting caller after 8 clock cycles, counted
\* from the clock edge at which the await of send is reached: the eighth edge
\* after that one runs to the end of the coroutine
C37_ReturnsAfterEightCycles ==
    [][ (InSend(7) /\ sig["reset"] = 0) => Finished(1)' ]_vars

\* the eighth edge after the await was reached executes the last iteration of
\* the loop; send has not returned
C37_Witness ==
    /\ InSend(8)
    /\ 1 \in Ran
    /\ exec[1] = << 3, 4, 5, 6, 7 >>
    /\ pre["cnt"] = 1 /\ pre["reset"] = 0
    /\ ~Finished(1)


\* send was executed by proc_use_transmitter at the last clock edge
SendExecuted ==
    /\ design = "TransmitterExampleParallel"
    /\ 2 \in Ran
    /\ 2 \in Visited(2)

\* C38: in the two-process SerialTransmitter design the runtime assertion
\* `assert self._ready` inside send holds at every clock edge at which send
\* executes: the edge reads _ready as true, executes the whole of send and
\* then ends the coroutine
C38_SendOnlyWhenReady ==
    /\ (design = "TransmitterExampleParallel" /\ compiled[2] # "pending") =>
          /\ compiled[2] = "ok"
          /\ RuntimeAssertions(output[2]) = {2}
    /\ SendExecuted =>
          /\ Eval(output[2][2].e, pre, D.sigs) = 1
          /\ pre["_ready"] = 1
          /\ exec[2] = << 1, 2, 3, 4, 5 >>
          /\ sig["_start"] = 1
          /\ sig["_data"] = pre["data"]
    /\ (design = "TransmitterExampleParallel" /\ 2 \in Ran /\ ~SendExecuted) =>
          /\ pre["_ready"] = 0
          /\ exec[2] = << 1 >>

\* send is executed while the transmitter waits for the start signal
C38_Witness ==
    /\ SendExecuted
    /\ pre["_ready"] = 1 /\ pre["_start"] = 0
    /\ st[1] = 1
    /\ sig["_start"] = 1
    /\ sig["_data"] = 1 /\ pre["_data"] = 0

\* C39: every execution of send is followed by exactly one serialization of
\* its data: the pulse of _start is observed by proc_serial_transmitter in
\* its wait-for-start loop (state 1), never outside of it, so no send is lost
\* and _data is not overwritten before it has been copied into the buffer
C39_NoSendLost ==
    (design = "TransmitterExampleParallel" /\ result = "ok" /\ sig["_start"] = 1)
       => st[1] = 1

\* a second send directly follows the first: its pulse is observed while the
\* transmitter is in the loop that serializes the data of the first send, and
\* its data differs from the data copied into the buffer
C39_Witness ==
    /\ SendExecuted
    /\ pre["_start"] = 1 /\ pre["_ready"] = 1 /\ pre["reset"] = 0
    /\ sig["_start"] = 1
    /\ st[1] = 7
    /\ sig["cnt"] = 8
    /\ sig["buffer"] = pre["_data"]
    /\ sig["_data"] # sig["buffer"]

============================================================================
